---- MODULE Spec2Model ----
(***************************************************************************)
(* A model of the track-data derivation pipeline of strava_dashboard:      *)
(*   _create_track_df -> _calculate_metrics -> _calculate_splits           *)
(*   (src/strava/utils/activity_processing.py), the heart-rate zone        *)
(*   classifiers of the four views, and the two FIT record readers.        *)
(*                                                                         *)
(* Numbers.  pandas works on IEEE doubles; the model works on exact        *)
(* rationals extended with the three special values a float column can     *)
(* hold: NaN/None/NaT ("null"), +inf ("pinf") and -inf ("ninf").  A cell   *)
(* is a record [k, n, d]; a "num" cell is the rational n/d in lowest terms *)
(* with d > 0, so that equal numbers are equal records.  A "str" cell is a *)
(* raw input that is not a number (to_numeric coerces it to NaN).          *)
(***************************************************************************)
EXTENDS Integers, Sequences, FiniteSets, TLC

VARIABLES
    pc,          \* position of the run: which function is called next
    args,        \* the arrays handed to _create_track_df
    track_df,    \* what _create_track_df returned
    metrics_df,  \* what _calculate_metrics returned
    splits,      \* what _calculate_splits returned
    zones,       \* the four zone limits of the sidebar (z1, z2, z3, z4)
    hr_zone,     \* the zone table of _render_hr_analysis
    avg_hr,      \* the average_heart_rate of the activity row the pages show
    page_zone,   \* the zone each page computed for avg_hr
    fit_file,    \* the record messages of a FIT file
    stream_db,   \* the rows of the activity_streams table
    counts,      \* imported_count, skipped_count, error_count of the import
    fit_track,   \* the table load_and_parse_file built from the FIT file
    fit_laps,    \* the second element of the pair load_and_parse_file returned
    diag,        \* whether each file reader reported an error on its last call
    tmp_files,   \* the temporary files that exist on disk
    file_list,   \* all_files of import_activity_streams
    idx,         \* how many files of file_list the import loop has gone through
    activities,  \* the rows of the activities table
    calls,       \* the calls made to the DatabaseManager so far
    skip_existing, \* the skip_existing argument of the running import
    activity_df, \* the table load_data returned
    conn, \* the connection of the DatabaseManager call in progress
    loop_km, \* current_km of the window loop of _calculate_splits
    run   \* number of the import_activity_streams run in progress, from 1

vars == <<pc, args, track_df, metrics_df, splits, zones, hr_zone, avg_hr,
          page_zone, fit_file, stream_db, counts, fit_track, fit_laps, diag,
          tmp_files, file_list, idx, activities, calls, skip_existing,
                   activity_df,
                   conn,
                   loop_km,
                   run>>

----------------------------------------------------------------------------
(* Cells: exact rationals plus null / +inf / -inf / non-numeric text.      *)

Abs(x) == IF x < 0 THEN -x ELSE x

RECURSIVE GCD(_, _)
GCD(a, b) == IF b = 0 THEN a ELSE GCD(b, a % b)

Sign(x) == IF x < 0 THEN -1 ELSE IF x > 0 THEN 1 ELSE 0

Q(n, d) ==
    LET g == GCD(Abs(n), Abs(d))
    IN  [k |-> "num", n |-> (Sign(d) * n) \div g, d |-> Abs(d) \div g]

NULL == [k |-> "null", n |-> 0, d |-> 1]
PINF == [k |-> "pinf", n |-> 0, d |-> 1]
NINF == [k |-> "ninf", n |-> 0, d |-> 1]
TEXT == [k |-> "str", n |-> 0, d |-> 1]

IsNum(c) == c.k = "num"
IsInf(c) == c.k \in {"pinf", "ninf"}
\* pd.isna: None, NaN and NaT are missing; an infinity is not
IsNa(c) == c.k = "null"

\* the sign of a non-null cell: -1, 0 or 1
CellSign(c) == IF c.k = "pinf" THEN 1 ELSE IF c.k = "ninf" THEN -1 ELSE Sign(c.n)

InfOf(s) == IF s > 0 THEN PINF ELSE NINF

QNeg(a) ==
    CASE a.k = "num" -> Q(-a.n, a.d)
      [] a.k = "pinf" -> NINF
      [] a.k = "ninf" -> PINF
      [] OTHER -> NULL

QAdd(a, b) ==
    IF IsNa(a) \/ IsNa(b) THEN NULL
    ELSE IF IsInf(a) /\ IsInf(b) THEN (IF a = b THEN a ELSE NULL)
    ELSE IF IsInf(a) THEN a
    ELSE IF IsInf(b) THEN b
    ELSE Q(a.n * b.d + b.n * a.d, a.d * b.d)

QSub(a, b) == QAdd(a, QNeg(b))

\* the product, reduced crosswise first so that no intermediate grows
QMul(a, b) ==
    IF IsNa(a) \/ IsNa(b) THEN NULL
    ELSE IF IsInf(a) \/ IsInf(b)
         THEN (IF CellSign(a) * CellSign(b) = 0 THEN NULL
               ELSE InfOf(CellSign(a) * CellSign(b)))
    ELSE LET g1 == GCD(Abs(a.n), b.d)
             g2 == GCD(Abs(b.n), a.d)
         IN  Q((a.n \div g1) * (b.n \div g2), (a.d \div g2) * (b.d \div g1))

\* float division: x/0 is +inf or -inf, 0/0 is NaN, nothing is raised
QDiv(a, b) ==
    IF IsNa(a) \/ IsNa(b) THEN NULL
    ELSE IF IsInf(a) /\ IsInf(b) THEN NULL
    ELSE IF IsInf(b) THEN Q(0, 1)
    ELSE IF IsInf(a) THEN InfOf(CellSign(a) * (IF b.n < 0 THEN -1 ELSE 1))
    ELSE IF b.n = 0
         THEN (IF a.n = 0 THEN NULL ELSE InfOf(a.n))
    ELSE QMul(a, Q(b.d, b.n))

\* comparisons of floats: any comparison with NaN is false
QLt(a, b) ==
    /\ ~IsNa(a) /\ ~IsNa(b)
    /\ IF IsNum(a) /\ IsNum(b) THEN a.n * b.d < b.n * a.d
       ELSE IF a.k = "ninf" THEN b.k # "ninf"
       ELSE IF a.k = "pinf" THEN FALSE
       ELSE b.k = "pinf"

QLe(a, b) == ~IsNa(a) /\ ~IsNa(b) /\ (a = b \/ QLt(a, b))
QGt(a, b) == QLt(b, a)

RECURSIVE QSum(_)
QSum(s) == IF s = <<>> THEN Q(0, 1) ELSE QAdd(Head(s), QSum(Tail(s)))

Min(a, b) == IF a < b THEN a ELSE b
Max(a, b) == IF a > b THEN a ELSE b

SeqOf(S, lens) == UNION {[1..n -> S] : n \in lens}

----------------------------------------------------------------------------
(* _create_track_df (activity_processing.py 4-59).                         *)
(* A raw timestamp is a "num" cell (a string that parses, as seconds), a   *)
(* "str" cell (a string that does not parse) or a "null" cell (None).      *)
(* A raw sensor value is a "num", a "str" or a "null" cell.                *)
(* A table is [st, columns, rows]; every row carries a cadence cell, which *)
(* is a column of the table only when "cadence" is among its columns.      *)

\* pd.to_datetime(..., errors="coerce"): what does not parse becomes NaT
ToDatetime(c) == IF c.k = "num" THEN c ELSE NULL

\* pd.to_numeric(..., errors="coerce"): what is not a number becomes NaN
ToNumeric(c) == IF c.k = "str" THEN NULL ELSE c

\* the helper adjust: pad with None or truncate to min_len
adjust(lst, min_len) ==
    IF Len(lst) < min_len
    THEN lst \o [i \in 1..(min_len - Len(lst)) |-> NULL]
    ELSE IF Len(lst) > min_len THEN SubSeq(lst, 1, min_len)
    ELSE lst

ffill_nothing(col) == col

\* Series.ffill: a missing cell takes the last value seen before it
ffill(col) ==
    LET RECURSIVE Fill(_, _)
        Fill(i, last) ==
            IF i > Len(col) THEN <<>>
            ELSE LET v == IF IsNa(col[i]) THEN last ELSE col[i]
                 IN  <<v>> \o Fill(i + 1, v)
    IN  Fill(1, NULL)

\* 180.0 / 2**31, in lowest terms 45 / 2^29
SemicircleFactor == Q(45, 536870912)
DegreeLimit == Q(180, 1)

to_degrees_noabs(val) ==
    IF IsNa(val) THEN NULL
    ELSE IF QGt(val, DegreeLimit) THEN QMul(val, SemicircleFactor)
    ELSE val

to_degrees(val) ==
    IF IsNa(val) THEN NULL
    ELSE IF QGt(IF CellSign(val) < 0 THEN QNeg(val) ELSE val, DegreeLimit)
         THEN QMul(val, SemicircleFactor)
    ELSE val

TrackColumns == <<"Time", "HR", "Altitude", "Distance", "latitude", "longitude">>

\* pd.DataFrame(): no columns, no rows
EmptyDataFrame == [st |-> "df", columns |-> <<>>, rows |-> <<>>]
\* the value None
NoneValue == [st |-> "none", columns |-> <<>>, rows |-> <<>>]
\* an exception left the function
Raised == [st |-> "raised", columns |-> <<>>, rows |-> <<>>]
\* the function has not run yet
Unset == [st |-> "unset", columns |-> <<>>, rows |-> <<>>]

create_track_df(timestamps, hrs, alts, dists, lats, lons) ==
    IF timestamps = <<>> THEN EmptyDataFrame
    ELSE
    LET min_len == Len(timestamps)
        latcol == IF lats # <<>> THEN lats ELSE [i \in 1..min_len |-> NULL]
        loncol == IF lons # <<>> THEN lons ELSE [i \in 1..min_len |-> NULL]
        Time == [i \in 1..min_len |-> ToDatetime(timestamps[i])]
        HR == ffill([i \in 1..min_len |-> ToNumeric(adjust(hrs, min_len)[i])])
        Altitude == ffill([i \in 1..min_len |-> ToNumeric(adjust(alts, min_len)[i])])
        Distance == ffill([i \in 1..min_len |-> ToNumeric(adjust(dists, min_len)[i])])
        all == [i \in 1..min_len |->
                  [Time |-> Time[i], HR |-> HR[i], Altitude |-> Altitude[i],
                   Distance |-> Distance[i],
                   latitude |-> to_degrees(latcol[i]),
                   longitude |-> to_degrees(loncol[i]),
                   cadence |-> NULL]]
    IN  \* the DataFrame constructor raises ValueError on arrays of unequal length
        IF Len(latcol) # min_len \/ Len(loncol) # min_len THEN Raised
        ELSE [st |-> "df", columns |-> TrackColumns,
              \* dropna(subset=["Time"])
              rows |-> SelectSeq(all, LAMBDA r : ~IsNa(r.Time))]

----------------------------------------------------------------------------
(* _calculate_metrics (activity_processing.py 62-113).                     *)

AltWindow == 15
SpeedWindow == 10
MinPeriods == 1

\* Series.diff: each row minus the row before it; the first row is NaN
Diff(col) ==
    [i \in 1..Len(col) |-> IF i = 1 THEN NULL ELSE QSub(col[i], col[i - 1])]

\* Series.rolling(window, min_periods, center).mean() at row i.  Rolling
\* replaces an infinity by NaN before it aggregates, and NaN is left out of
\* the mean; the result is NaN when fewer than min_periods values remain.
RollingMean(col, window, center, i) ==
    LET offset == IF center THEN (window - 1) \div 2 ELSE 0
        lo == Max(1, i + offset - window + 1)
        hi == Min(Len(col), i + offset)
        valid == SelectSeq(SubSeq(col, lo, hi), IsNum)
    IN  IF Len(valid) < MinPeriods THEN NULL
        ELSE QDiv(QSum(valid), Q(Len(valid), 1))

Rolling(col, window, center) ==
    [i \in 1..Len(col) |-> RollingMean(col, window, center, i)]

MovingThreshold == Q(1, 2)
MinGradeDist == Q(1, 1)
GradeLow == Q(-2, 5)
GradeHigh == Q(2, 5)

\* Series.clip(lower, upper): NaN stays NaN
Clip(c, lower, upper) ==
    IF IsNa(c) THEN c
    ELSE IF QLt(c, lower) THEN lower
    ELSE IF QGt(c, upper) THEN upper
    ELSE c

FillNa(c, v) == IF IsNa(c) THEN v ELSE c

GradeOf_unclipped(alt_diff, dist_diff) ==
    LET raw == QDiv(alt_diff, dist_diff)
        quiet == IF QLt(dist_diff, MinGradeDist) THEN Q(0, 1) ELSE raw
    IN  FillNa(quiet, Q(0, 1))

\* lines 85-87: rise over run, 0 on small distances, clipped, NaN to 0
GradeOf(alt_diff, dist_diff) ==
    LET raw == QDiv(alt_diff, dist_diff)
        quiet == IF QLt(dist_diff, MinGradeDist) THEN Q(0, 1) ELSE raw
    IN  FillNa(Clip(quiet, GradeLow, GradeHigh), Q(0, 1))

get_gap_factor(grade) ==
    IF QGt(grade, Q(0, 1)) THEN QAdd(Q(1, 1), QMul(Q(9, 1), grade))
    ELSE QAdd(Q(1, 1), QMul(Q(4, 1), grade))

PaceFloor == Q(1, 10)

get_pace(speed_ms) ==
    IF IsNa(speed_ms) \/ QLt(speed_ms, PaceFloor) THEN NULL
    ELSE QDiv(QDiv(Q(1000, 1), speed_ms), Q(60, 1))

MetricColumns ==
    <<"Elapsed Seconds", "Altitude_Smooth", "Dist_Diff", "Time_Diff", "Alt_Diff",
      "Speed_m_s", "Is_Moving", "Speed_Smooth", "Grade", "GAP_Factor", "Speed_GAP",
      "Pace_Decimal", "GAP_Pace_Decimal", "Elev_Gain_Step">>

\* lines 66-113: the table with the derived columns appended
metrics_table(df) ==
    LET rows == df.rows
        n == Len(rows)
        Elapsed == [i \in 1..n |-> QSub(rows[i].Time, rows[1].Time)]
        Altitude_Smooth == Rolling([i \in 1..n |-> rows[i].Altitude], AltWindow, TRUE)
        Dist_Diff == Diff([i \in 1..n |-> rows[i].Distance])
        Time_Diff == Diff(Elapsed)
        Alt_Diff == Diff(Altitude_Smooth)
        Speed_m_s == [i \in 1..n |-> QDiv(Dist_Diff[i], Time_Diff[i])]
        Speed_Smooth == Rolling(Speed_m_s, SpeedWindow, FALSE)
        Grade == [i \in 1..n |-> GradeOf(Alt_Diff[i], Dist_Diff[i])]
        GAP_Factor == [i \in 1..n |-> get_gap_factor(Grade[i])]
        Speed_GAP == [i \in 1..n |-> QMul(Speed_Smooth[i], GAP_Factor[i])]
    IN  [st |-> "df",
         columns |-> df.columns \o MetricColumns,
         rows |-> [i \in 1..n |->
            [Time |-> rows[i].Time, HR |-> rows[i].HR,
             Altitude |-> rows[i].Altitude, Distance |-> rows[i].Distance,
             latitude |-> rows[i].latitude, longitude |-> rows[i].longitude,
             cadence |-> rows[i].cadence,
             Elapsed_Seconds |-> Elapsed[i],
             Altitude_Smooth |-> Altitude_Smooth[i],
             Dist_Diff |-> Dist_Diff[i],
             Time_Diff |-> Time_Diff[i],
             Alt_Diff |-> Alt_Diff[i],
             Speed_m_s |-> Speed_m_s[i],
             Is_Moving |-> QGt(Speed_m_s[i], MovingThreshold),
             Speed_Smooth |-> Speed_Smooth[i],
             Grade |-> Grade[i],
             GAP_Factor |-> GAP_Factor[i],
             Speed_GAP |-> Speed_GAP[i],
             Pace_Decimal |-> get_pace(Speed_Smooth[i]),
             GAP_Pace_Decimal |-> get_pace(Speed_GAP[i]),
             Elev_Gain_Step |-> IF QGt(Alt_Diff[i], Q(0, 1)) THEN Alt_Diff[i]
                                ELSE Q(0, 1)]]]

calculate_metrics_returns_table(df) ==
    IF df.rows = <<>> THEN df ELSE metrics_table(df)

\* metrics computed from the second sample onwards
calculate_metrics_from_second(df) ==
    IF Len(df.rows) <= 1 THEN NoneValue
    ELSE metrics_table([df EXCEPT !.rows = Tail(df.rows)])

\* lines 62-64: an empty table gives None
calculate_metrics(df) ==
    IF df.rows = <<>> THEN NoneValue ELSE metrics_table(df)

----------------------------------------------------------------------------
(* _calculate_splits (activity_processing.py 116-167).                     *)

SplitLen == 1000

\* Series.max(): the largest value that is not NaN, NaN when there is none
RECURSIVE ColMax(_)
ColMax(col) ==
    IF col = <<>> THEN NULL
    ELSE LET rest == ColMax(Tail(col))
             h == Head(col)
         IN  IF IsNa(h) THEN rest
             ELSE IF IsNa(rest) THEN h
             ELSE IF QLt(rest, h) THEN h ELSE rest

\* Series.mean(): the mean of the values that are not NaN, NaN when none
ColMean(col) ==
    LET valid == SelectSeq(col, LAMBDA c : ~IsNa(c))
    IN  IF valid = <<>> THEN NULL ELSE QDiv(QSum(valid), Q(Len(valid), 1))

HasColumn(df, name) == \E i \in 1..Len(df.columns) : df.columns[i] = name

\* lines 133-163: the split of the window [start_dist, end_dist), or <<>>
\* when no row lies in it
SplitOfWindow(df, current_km) ==
    LET start_dist == Q(current_km * SplitLen, 1)
        end_dist == Q((current_km + 1) * SplitLen, 1)
        split_data == SelectSeq(df.rows, LAMBDA r :
                          QLe(start_dist, r.Distance) /\ QLt(r.Distance, end_dist))
        m == Len(split_data)
        actual_dist_m == QSub(split_data[m].Distance, split_data[1].Distance)
        actual_dist_km == QDiv(actual_dist_m, Q(1000, 1))
        elapsed_time_s == QSub(split_data[m].Time, split_data[1].Time)
    IN  IF split_data = <<>> THEN <<>>
        ELSE << [KM |-> current_km + 1,
                 Distance |-> actual_dist_km,
                 Pace |-> IF QGt(actual_dist_km, Q(0, 1))
                          THEN QDiv(QDiv(elapsed_time_s, actual_dist_km), Q(60, 1))
                          ELSE Q(0, 1),
                 Avg_HR |-> ColMean([i \in 1..m |-> split_data[i].HR]),
                 Cadence |-> IF HasColumn(df, "cadence")
                             THEN ColMean([i \in 1..m |-> split_data[i].cadence])
                             ELSE NULL] >>

RECURSIVE SplitLoop_partial(_, _, _)
SplitLoop_partial(df, max_dist, current_km) ==
    IF ~QLt(Q(current_km * SplitLen, 1), max_dist) THEN <<>>
    ELSE SplitOfWindow(df, current_km)
         \o SplitLoop_partial(df, max_dist, current_km + 1)

\* the while loop of lines 125-165, from window current_km on
RECURSIVE SplitLoop(_, _, _)
SplitLoop(df, max_dist, current_km) ==
    IF ~QLt(Q(current_km * SplitLen, 1), max_dist) THEN <<>>
    ELSE (IF QLe(Q((current_km + 1) * SplitLen, 1), max_dist)
          THEN SplitOfWindow(df, current_km)
          ELSE <<>>)
         \o SplitLoop(df, max_dist, current_km + 1)

calculate_splits(df) ==
    IF df.rows = <<>> THEN <<>>
    ELSE SplitLoop(df, ColMax([i \in 1..Len(df.rows) |-> df.rows[i].Distance]), 0)

----------------------------------------------------------------------------
(* Heart-rate zones.  zones is the list [z1, z2, z3, z4] of app.py.        *)

\* _render_hr_analysis.get_zone_idx (deep_dive.py 238-249): 0..4, or None
get_zone_idx(h, z) ==
    IF IsNa(h) THEN NULL
    ELSE IF QLt(h, Q(z[1], 1)) THEN Q(0, 1)
    ELSE IF QLt(h, Q(z[2], 1)) THEN Q(1, 1)
    ELSE IF QLt(h, Q(z[3], 1)) THEN Q(2, 1)
    ELSE IF QLt(h, Q(z[4], 1)) THEN Q(3, 1)
    ELSE Q(4, 1)

\* Series.sum(): NaN is left out, the sum of nothing is 0
ColSum(col) == QSum(SelectSeq(col, LAMBDA c : ~IsNa(c)))

\* _render_hr_analysis (deep_dive.py 230-266): the Zone_Idx column and the
\* time and percentage of each of the five zones
render_hr_analysis(df, z) ==
    LET n == Len(df.rows)
        Zone_Idx == [i \in 1..n |-> get_zone_idx(df.rows[i].HR, z)]
        total_time == ColSum([i \in 1..n |-> df.rows[i].Time_Diff])
        InZone(i) == SelectSeq([j \in 1..n |-> IF Zone_Idx[j] = Q(i, 1)
                                               THEN df.rows[j].Time_Diff
                                               ELSE NULL],
                               LAMBDA c : ~IsNa(c))
    IN  [Zone_Idx |-> Zone_Idx,
         zone_data |-> [i \in 1..5 |->
            LET z_time == QSum(InZone(i - 1))
            IN  [Zone |-> i,
                 Time |-> z_time,
                 Percentage |-> IF QGt(total_time, Q(0, 1))
                                THEN QMul(QDiv(z_time, total_time), Q(100, 1))
                                ELSE Q(0, 1)]]]

\* page_activity_run_details.get_zone (activities.py 226-236)
activities_get_zone(hr, z) ==
    IF QLe(hr, Q(z[1], 1)) THEN "Zone 1"
    ELSE IF QLe(hr, Q(z[2], 1)) THEN "Zone 2"
    ELSE IF QLe(hr, Q(z[3], 1)) THEN "Zone 3"
    ELSE IF QLe(hr, Q(z[4], 1)) THEN "Zone 4"
    ELSE "Zone 5"

\* page_general.get_zone (general.py 117-127)
general_get_zone(hr, z) ==
    IF QLe(hr, Q(z[1], 1)) THEN "Z1"
    ELSE IF QLe(hr, Q(z[2], 1)) THEN "Z2"
    ELSE IF QLe(hr, Q(z[3], 1)) THEN "Z3"
    ELSE IF QLe(hr, Q(z[4], 1)) THEN "Z4"
    ELSE "Z5"

\* page_races (races.py 95-115): hr_val is None for a missing heart rate,
\* and a None or zero hr_val leaves zone_str at "N/A"
races_zone_str(hr, z) ==
    IF IsNa(hr) \/ hr = Q(0, 1) THEN "N/A"
    ELSE IF QLe(hr, Q(z[1], 1)) THEN "Z1"
    ELSE IF QLe(hr, Q(z[2], 1)) THEN "Z2"
    ELSE IF QLe(hr, Q(z[3], 1)) THEN "Z3"
    ELSE IF QLe(hr, Q(z[4], 1)) THEN "Z4"
    ELSE "Z5"

----------------------------------------------------------------------------
(* FIT files.  A FIT file is [decode, records]: decode tells whether the   *)
(* Garmin decoder returns cleanly ("ok"), returns the messages it decoded  *)
(* together with a list of errors ("errors"), or raises ("raises").  A     *)
(* record message holds one cell per field, NULL for a field the record    *)
(* does not have (record.get gives None).  Of the fields the readers copy, *)
(* the model keeps the ones the track pipeline reads; power, temperature,  *)
(* step_length and the lap messages are left out.                          *)

\* Python's "a or b" on numbers and None
PyOr(a, b) == IF IsNa(a) \/ a = Q(0, 1) THEN b ELSE a

\* Python's int(x): truncation toward zero
PyInt(c) ==
    IF ~IsNum(c) THEN c
    ELSE Q(Sign(c.n) * (Abs(c.n) \div c.d), 1)

\* parse_fit_file, the body of the loop over the records
\* (import_streams.py 174-236)
fit_stream_record(record, start_time) ==
    [timestamp |-> record.timestamp,
     elapsed_seconds |-> IF ~IsNa(record.timestamp) /\ ~IsNa(start_time)
                         THEN QSub(record.timestamp, start_time) ELSE NULL,
     heart_rate |-> PyInt(record.heart_rate),
     latitude |-> QMul(record.position_lat, SemicircleFactor),
     longitude |-> QMul(record.position_long, SemicircleFactor),
     altitude |-> PyOr(record.enhanced_altitude, record.altitude),
     distance |-> record.distance,
     speed |-> PyOr(record.enhanced_speed, record.speed),
     cadence |-> PyInt(record.cadence),
     pace |-> NULL,
     activity_id |-> 0]

\* parse_fit_file (import_streams.py 137-242): the list of stream records,
\* or None
parse_fit_file(file) ==
    IF file.decode = "raises" \/ file.records = <<>> THEN [st |-> "none", recs |-> <<>>]
    ELSE [st |-> "list",
          recs |-> [i \in 1..Len(file.records) |->
                      fit_stream_record(file.records[i], file.records[1].timestamp)]]

StreamPaceFloor == Q(1, 10)

\* the lambda of calculate_pace (import_streams.py 264-266 and 275-277)
stream_pace(s) ==
    IF ~IsNa(s) /\ QGt(s, StreamPaceFloor)
    THEN QDiv(QDiv(Q(1000, 1), s), Q(60, 1))
    ELSE NULL

\* calculate_pace (import_streams.py 245-282): a column exists in the frame
\* when some record has the key
calculate_pace(recs) ==
    IF recs = <<>> THEN recs
    ELSE
    LET n == Len(recs)
        has_speed == \E i \in 1..n : ~IsNa(recs[i].speed)
        has_dist == \E i \in 1..n : ~IsNa(recs[i].distance)
        has_elapsed == \E i \in 1..n : ~IsNa(recs[i].elapsed_seconds)
        dist_diff == Diff([i \in 1..n |-> recs[i].distance])
        time_diff == Diff([i \in 1..n |-> recs[i].elapsed_seconds])
        instant_speed == [i \in 1..n |-> QDiv(dist_diff[i], time_diff[i])]
        smooth_speed == Rolling(instant_speed, SpeedWindow, FALSE)
    IN  [i \in 1..n |->
            [recs[i] EXCEPT !.pace =
                IF has_speed THEN stream_pace(recs[i].speed)
                ELSE IF has_dist /\ has_elapsed THEN stream_pace(smooth_speed[i])
                ELSE NULL]]

\* _parse_fit_messages (file_parsing.py 69-119): the parallel arrays
parse_fit_messages(file) ==
    LET recs == IF file.decode = "raises" THEN <<>> ELSE file.records
        n == Len(recs)
    IN  [timestamps |-> [i \in 1..n |-> recs[i].timestamp],
         hrs |-> [i \in 1..n |-> recs[i].heart_rate],
         alts |-> [i \in 1..n |-> PyOr(recs[i].enhanced_altitude, recs[i].altitude)],
         dists |-> [i \in 1..n |-> recs[i].distance],
         cads |-> [i \in 1..n |-> IF ~IsNa(recs[i].cadence)
                                  THEN QMul(recs[i].cadence, Q(2, 1)) ELSE NULL],
         lats |-> [i \in 1..n |-> recs[i].position_lat],
         lons |-> [i \in 1..n |-> recs[i].position_long]]

\* _parse_fit (file_parsing.py 24-61)
parse_fit(file) ==
    LET recs == IF file.decode = "raises" THEN <<>> ELSE file.records
        n == Len(recs)
    IN  [timestamps |-> [i \in 1..n |-> recs[i].timestamp],
         hrs |-> [i \in 1..n |-> recs[i].heart_rate],
         alts |-> [i \in 1..n |-> IF ~IsNa(recs[i].enhanced_altitude)
                                  THEN recs[i].enhanced_altitude
                                  ELSE recs[i].altitude],
         dists |-> [i \in 1..n |-> recs[i].distance],
         lats |-> [i \in 1..n |-> recs[i].position_lat],
         lons |-> [i \in 1..n |-> recs[i].position_long],
         parsing_error |-> file.decode # "ok"]

\* lines 138-140 and 160-163: attach the cadence list, forward-filled, when
\* it is as long as the table
with_cadence(df, cads) ==
    LET filled == ffill(cads)
    IN  [df EXCEPT !.columns = @ \o <<"cadence">>,
                   !.rows = [i \in 1..Len(df.rows) |->
                                [df.rows[i] EXCEPT !.cadence = filled[i]]]]

\* lines 135-139: the columns are the keys of the first record, and a later
\* record without one of them raises KeyError before anything is written
insert_stream_batch_raises(stream_records) ==
    /\ stream_records # <<>>
    /\ \E i \in 1..Len(stream_records) :
          ~(DOMAIN stream_records[1] \subseteq DOMAIN stream_records[i])

\* DatabaseManager.insert_stream_batch (db_manager.py 122-141): the batch is
\* appended to activity_streams, each record with the columns of the first;
\* an empty batch changes nothing
insert_stream_batch(db, stream_records) ==
    IF stream_records = <<>> \/ insert_stream_batch_raises(stream_records)
    THEN db
    ELSE db \o [i \in 1..Len(stream_records) |->
                  [col \in DOMAIN stream_records[1] |-> stream_records[i][col]]]

\* a store that never reports an activity as imported
activity_never_stored(db, activity_id) == FALSE

\* DatabaseManager.activity_has_streams (db_manager.py 155-160)
activity_has_streams(db, activity_id) ==
    \E i \in 1..Len(db) : db[i].activity_id = activity_id

----------------------------------------------------------------------------
(* The deep-dive run: page_recent_activities parses the file of the chosen *)
(* activity (deep_dive.py 759), then shows the zone table (773) and the    *)
(* splits (777).                                                           *)

CreateTrackDf ==
    /\ pc = "create"
    /\ track_df' = create_track_df(args.timestamps, args.hrs, args.alts,
                                   args.dists, args.lats, args.lons)
    /\ pc' = IF track_df'.st = "raised" THEN "raised" ELSE "metrics"
    /\ UNCHANGED <<args, metrics_df, splits, zones, hr_zone, avg_hr, page_zone,
                   fit_file, stream_db, counts, fit_track, fit_laps, diag,
                   tmp_files, file_list, idx, activities, calls, skip_existing,
                   activity_df,
                   conn,
                   loop_km,
                   run>>

\* _calculate_metrics adds its columns to the table it is given and returns
\* that table, or returns None for an empty one
CalculateMetrics ==
    /\ pc = "metrics"
    /\ metrics_df' = calculate_metrics(track_df)
    /\ track_df' = IF metrics_df'.st = "df" THEN metrics_df' ELSE track_df
    /\ pc' = IF metrics_df'.st = "df" THEN "hr" ELSE "done"
    /\ UNCHANGED <<args, splits, zones, hr_zone, avg_hr, page_zone,
                   fit_file, stream_db, counts, fit_track, fit_laps, diag,
                   tmp_files, file_list, idx, activities, calls, skip_existing,
                   activity_df,
                   conn,
                   loop_km,
                   run>>

RenderHrAnalysis ==
    /\ pc = "hr"
    /\ hr_zone' = render_hr_analysis(metrics_df, zones)
    /\ pc' = "splits"
    /\ UNCHANGED <<args, track_df, metrics_df, splits, zones, avg_hr, page_zone,
                   fit_file, stream_db, counts, fit_track, fit_laps, diag,
                   tmp_files, file_list, idx, activities, calls, skip_existing,
                   activity_df,
                   conn,
                   loop_km,
                   run>>

CalculateSplits ==
    /\ pc = "splits"
    /\ splits' = calculate_splits(metrics_df)
    /\ pc' = "done"
    /\ UNCHANGED <<args, track_df, metrics_df, zones, hr_zone, avg_hr, page_zone,
                   fit_file, stream_db, counts, fit_track, fit_laps, diag,
                   tmp_files, file_list, idx, activities, calls, skip_existing,
                   activity_df,
                   conn,
                   loop_km,
                   run>>

Next == CreateTrackDf \/ CalculateMetrics \/ RenderHrAnalysis \/ CalculateSplits

----------------------------------------------------------------------------
(* Initial states.                                                         *)

\* the defaults of the sidebar (app.py 30-33)
DefaultZones == <<145, 164, 174, 188>>

NoHrZone == [Zone_Idx |-> <<>>, zone_data |-> <<>>]
NoPages == [activities |-> "", general |-> "", races |-> ""]
NoTcx == [time_values |-> <<>>, hr_values |-> <<>>, altitude_points |-> <<>>,
          distance_values |-> <<>>, cadence_values |-> <<>>,
          position_values |-> <<>>]
NoFit == [exists |-> TRUE, read |-> "ok", kind |-> "fit", gz |-> FALSE,
          name_ok |-> TRUE, activity_id |-> 0, decode |-> "ok", records |-> <<>>,
          tcx |-> NoTcx]
NoCounts == [imported |-> 0, skipped |-> 0, errors |-> 0]
NoConn == [open |-> FALSE, in_tx |-> FALSE, journal |-> <<>>, batch |-> <<>>,
           done |-> 0, raised |-> FALSE]
NoDiag == [parse_fit |-> "", parse_fit_messages |-> "", parse_fit_file |-> "",
           load_and_parse_file |-> ""]
NoArgs == [timestamps |-> <<>>, hrs |-> <<>>, alts |-> <<>>, dists |-> <<>>,
           lats |-> <<>>, lons |-> <<>>]

InitRest ==
    /\ track_df = Unset
    /\ metrics_df = Unset
    /\ splits = <<>>
    /\ hr_zone = NoHrZone
    /\ page_zone = NoPages
    /\ stream_db = <<>>
    /\ counts = NoCounts
    /\ fit_track = Unset
    /\ fit_laps = "unset"
    /\ diag = NoDiag
    /\ tmp_files = {}
    /\ idx = 0
    /\ activities = <<>>
    /\ calls = <<>>
    /\ run = 1
    /\ loop_km = 0
    /\ conn = NoConn
    /\ activity_df = Unset

\* no import is running
InitNoImport ==
    /\ file_list = <<>>
    /\ skip_existing = TRUE

InitTrack(Args) ==
    /\ pc = "create"
    /\ args \in Args
    /\ zones = DefaultZones
    /\ avg_hr = NULL
    /\ fit_file = NoFit
    /\ InitRest
    /\ InitNoImport

\* Tracks of up to MaxLen samples whose timestamps may repeat, run backwards
\* or fail to parse, and whose distances may be missing
MaxLen == 2
TimeCells == {Q(0, 1), Q(10, 1), TEXT}
DistCells == {NULL, Q(0, 1), Q(1, 1), Q(5, 1)}

Init ==
    InitTrack(UNION {
        {[timestamps |-> ts, hrs |-> h, alts |-> <<>>, dists |-> d,
          lats |-> <<>>, lons |-> <<>>] :
            ts \in [1..n -> TimeCells], d \in [1..n -> DistCells],
            h \in {<<>>, <<Q(140, 1)>>}} : n \in 0..MaxLen})

Spec == Init /\ [][Next]_vars

----------------------------------------------------------------------------
(* Claims settled under Spec.                                              *)

AfterCreate == pc \notin {"create", "raised"}
AfterMetrics == pc \in {"hr", "splits", "done"}
HasMetrics == AfterMetrics /\ metrics_df.st = "df"

\* C1: after _create_track_df and _calculate_metrics the first retained
\* TrackPoint has elapsed_seconds = 0 and every later TrackPoint has
\* elapsed_seconds strictly greater than the one before it, for any
\* timestamp array (duplicates and out-of-order timestamps included).
C1_ElapsedStrictlyIncreasing ==
    HasMetrics =>
        /\ metrics_df.rows[1].Elapsed_Seconds = Q(0, 1)
        /\ \A i \in 2..Len(metrics_df.rows) :
              QLt(metrics_df.rows[i - 1].Elapsed_Seconds,
                  metrics_df.rows[i].Elapsed_Seconds)

\* the pace the claim C3 gives for a speed: null at or below 0.1 m/s
C3_ExpectedPace(speed) ==
    IF IsNa(speed) \/ QLe(speed, Q(1, 10)) THEN NULL
    ELSE QDiv(QDiv(Q(1000, 1), speed), Q(60, 1))

\* C3: in every row of _calculate_metrics, pace_decimal is null whenever
\* speed_smoothed <= 0.1 (0.1 itself included) or speed_smoothed is null, and
\* is (1000 / speed_smoothed) / 60 otherwise; likewise the grade-adjusted
\* pace from speed_gap.
C3_PaceNullAtOrBelowFloor ==
    HasMetrics =>
        \A i \in 1..Len(metrics_df.rows) :
            /\ metrics_df.rows[i].Pace_Decimal
                  = C3_ExpectedPace(metrics_df.rows[i].Speed_Smooth)
            /\ metrics_df.rows[i].GAP_Pace_Decimal
                  = C3_ExpectedPace(metrics_df.rows[i].Speed_GAP)

\* C9 as stated: an empty timestamp array gives an empty table, and
\* _calculate_metrics returns that same empty table.
C9_MetricsReturnsEmptyTable ==
    /\ (AfterCreate /\ args.timestamps = <<>>) =>
           (track_df.st = "df" /\ track_df.rows = <<>>)
    /\ (pc = "done" /\ track_df.rows = <<>>) => metrics_df = track_df

\* C9 amended: an empty timestamp array gives an empty table (pd.DataFrame(),
\* no columns), and _calculate_metrics applied to an empty table (no rows)
\* returns None and raises nothing; the run ends there.
C9_EmptyTableGivesNone ==
    /\ (pc # "create" /\ args.timestamps = <<>>) => track_df = EmptyDataFrame
    /\ (pc \notin {"create", "metrics"} /\ track_df.st = "df"
          /\ track_df.rows = <<>>) =>
           (metrics_df = NoneValue /\ pc = "done" /\ splits = <<>>)

C9_Witness ==
    /\ pc = "done"
    /\ args.timestamps = <<>>
    /\ args.hrs # <<>>
    /\ track_df = EmptyDataFrame
    /\ metrics_df = NoneValue

\* C10: in every row whose time_diff is zero, speed_m_s is null (not
\* infinite), whatever dist_diff is, and no speed_smoothed or pace derived
\* from it is infinite.
C10_ZeroTimeDiffGivesNullSpeed ==
    HasMetrics =>
        \A i \in 1..Len(metrics_df.rows) :
            metrics_df.rows[i].Time_Diff = Q(0, 1) =>
                /\ IsNa(metrics_df.rows[i].Speed_m_s)
                /\ ~IsInf(metrics_df.rows[i].Speed_Smooth)
                /\ ~IsInf(metrics_df.rows[i].Pace_Decimal)
                /\ ~IsInf(metrics_df.rows[i].GAP_Pace_Decimal)

----------------------------------------------------------------------------
(* Forward fill (C4): tracks whose sensor arrays have gaps, texts and      *)
(* missing tails, and whose timestamps may fail to parse.                  *)

FillLen == 2
HrCells == {NULL, TEXT, Q(140, 1)}
AltCells == {NULL, Q(50, 1)}
GapDistCells == {NULL, Q(100, 1)}

\* sample i is taken at 10 * i seconds, or its timestamp does not parse
ClockArrays(n) ==
    {[i \in 1..n |-> IF ok[i] THEN Q(10 * i, 1) ELSE TEXT] : ok \in [1..n -> BOOLEAN]}

InitFill ==
    InitTrack(UNION {
        {[timestamps |-> ts, hrs |-> h, alts |-> a, dists |-> d,
          lats |-> <<>>, lons |-> <<>>] :
            ts \in ClockArrays(n),
            h \in SeqOf(HrCells, {0, n}),
            a \in SeqOf(AltCells, {n - 1}),
            d \in SeqOf(GapDistCells, {n})} : n \in 1..FillLen})

SpecFill == InitFill /\ [][Next]_vars

NoLaterNull(col) ==
    \A i \in 1..Len(col) : \A j \in i..Len(col) : ~IsNa(col[i]) => ~IsNa(col[j])

\* C4: in every table returned by _create_track_df, for each of Distance,
\* Altitude and HR, no row after a row with a value has a null in that column.
C4_NoNullAfterValue ==
    (AfterCreate /\ track_df.st = "df") =>
        /\ NoLaterNull([i \in 1..Len(track_df.rows) |-> track_df.rows[i].Distance])
        /\ NoLaterNull([i \in 1..Len(track_df.rows) |-> track_df.rows[i].Altitude])
        /\ NoLaterNull([i \in 1..Len(track_df.rows) |-> track_df.rows[i].HR])

\* a returned table of two rows whose raw heart rate, altitude and distance
\* each had a value in the first row and none in the second
C4_Witness ==
    /\ pc = "metrics"
    /\ Len(track_df.rows) = 2
    /\ Len(args.hrs) = 2 /\ IsNum(args.hrs[1]) /\ ~IsNum(args.hrs[2])
    /\ Len(args.alts) = 1 /\ IsNum(args.alts[1])
    /\ IsNum(args.dists[1]) /\ IsNa(args.dists[2])
    /\ ~IsNa(track_df.rows[2].HR)

----------------------------------------------------------------------------
(* Positions (C5): latitudes on both sides of the 180 limit, in            *)
(* semicircles and in degrees, missing, or not given at all.               *)

GpsLen == 2
LatCells == {NULL, Q(-181, 1), Q(-180, 1), Q(180, 1), Q(181, 1), Q(536870912, 1)}
LonCells == {NULL, Q(-1073741824, 1), Q(90, 1)}

InitGps ==
    InitTrack(UNION {
        {[timestamps |-> ts, hrs |-> <<>>, alts |-> <<>>, dists |-> <<>>,
          lats |-> la, lons |-> lo] :
            ts \in ClockArrays(n),
            la \in SeqOf(LatCells, {0, n}) \cup {[i \in 1..(n + 1) |-> Q(0, 1)]},
            lo \in {<<>>} \cup {[i \in 1..n |-> c] : c \in LonCells}}
        : n \in 1..GpsLen})

SpecGps == InitGps /\ [][Next]_vars

\* the positions of the timestamps that parse, in order: the retained rows
RECURSIVE RetainedFrom(_, _)
RetainedFrom(ts, i) ==
    IF i > Len(ts) THEN <<>>
    ELSE (IF ts[i].k = "num" THEN <<i>> ELSE <<>>) \o RetainedFrom(ts, i + 1)

\* the degrees the claim C5 gives for a value v: v * 180 / 2^31, computed
\* as (v / 2^29) * 45, beyond 180 in magnitude
C5_Expected(v) ==
    IF v.k = "null" THEN NULL
    ELSE IF QLt(v, Q(-180, 1)) \/ QLt(Q(180, 1), v)
         THEN QMul(QDiv(v, Q(536870912, 1)), Q(45, 1))
    ELSE v

C5_Given(array, i) == IF array = <<>> THEN NULL ELSE array[i]

\* C5: every latitude and longitude value v given to _create_track_df comes
\* out as v * 180 / 2^31 if |v| > 180, unchanged if |v| <= 180, and null if
\* it is null (one output row per timestamp that parses).
C5_DegreesRule ==
    (AfterCreate /\ track_df.st = "df" /\ args.timestamps # <<>>) =>
        LET keep == RetainedFrom(args.timestamps, 1)
        IN  /\ Len(track_df.rows) = Len(keep)
            /\ \A k \in 1..Len(keep) :
                  /\ track_df.rows[k].latitude
                        = C5_Expected(C5_Given(args.lats, keep[k]))
                  /\ track_df.rows[k].longitude
                        = C5_Expected(C5_Given(args.lons, keep[k]))

\* C15: for a non-empty timestamp array of length n and heart-rate,
\* altitude, distance, latitude and longitude arrays of any lengths,
\* _create_track_df pads or truncates every array to n entries and builds the
\* table without raising.
C15_EveryArrayAdjusted ==
    (pc # "create" /\ args.timestamps # <<>>) =>
        /\ track_df.st # "raised"
        /\ Len(track_df.rows) = Len(RetainedFrom(args.timestamps, 1))

\* a returned table with a latitude of -181 semicircles converted, one of
\* 180 degrees kept, and a longitude of -2^30 semicircles turned into -90
C5_Witness ==
    /\ pc = "metrics"
    /\ args.lats = <<Q(-181, 1), Q(180, 1)>>
    /\ Len(track_df.rows) = 2
    /\ track_df.rows[1].latitude = Q(-8145, 536870912)
    /\ track_df.rows[2].latitude = Q(180, 1)
    /\ track_df.rows[1].longitude = Q(-90, 1)

----------------------------------------------------------------------------
(* Grade (C6).  The smoothed altitude is a centered mean over AltWindow    *)
(* samples, so two neighbouring rows differ in it only when the track is   *)
(* longer than half the window: the tracks here have GradeLen samples, ten *)
(* seconds apart, an altitude that steps from one level to another after   *)
(* the k-th sample, and a distance that grows by the same step each time.  *)

GradeLen == 9
AltLevels == {NULL, Q(0, 1), Q(9, 1), Q(90, 1)}
DistSteps == {NULL, Q(-10, 1), Q(0, 1), Q(1, 2), Q(1, 1), Q(10, 1)}

InitGrade ==
    InitTrack({[timestamps |-> [i \in 1..GradeLen |-> Q(10 * i, 1)],
                hrs |-> <<>>,
                alts |-> [i \in 1..GradeLen |-> IF i <= k THEN a ELSE b],
                dists |-> [i \in 1..GradeLen |-> QMul(step, Q(i - 1, 1))],
                lats |-> <<>>, lons |-> <<>>] :
                   k \in 0..GradeLen, a \in AltLevels, b \in AltLevels,
                   step \in DistSteps})

SpecGrade == InitGrade /\ [][Next]_vars

\* the grade the claim C6 gives for a row
C6_Expected(alt_diff, dist_diff) ==
    LET raw == QDiv(alt_diff, dist_diff)
    IN  IF QLt(dist_diff, Q(1, 1)) \/ IsNa(raw) THEN Q(0, 1)
        ELSE IF QLt(raw, Q(-4, 10)) THEN Q(-4, 10)
        ELSE IF QLt(Q(4, 10), raw) THEN Q(4, 10)
        ELSE raw

\* C6: after _calculate_metrics every row's grade is a number in
\* [-0.4, 0.4]: 0 when dist_diff < 1 or alt_diff / dist_diff is undefined,
\* otherwise alt_diff / dist_diff clamped to the nearest of -0.4 and 0.4.
C6_GradeClamped ==
    HasMetrics =>
        \A i \in 1..Len(metrics_df.rows) :
            LET r == metrics_df.rows[i]
            IN  /\ IsNum(r.Grade)
                /\ QLe(Q(-4, 10), r.Grade) /\ QLe(r.Grade, Q(4, 10))
                /\ r.Grade = C6_Expected(r.Alt_Diff, r.Dist_Diff)

\* a table where one row's rise over run is above 0.4 and stored as 0.4,
\* another row is level over a metre or more and has grade 0, and the first
\* row's quotient is undefined
C6_Witness ==
    /\ HasMetrics
    /\ IsNa(metrics_df.rows[1].Dist_Diff) /\ metrics_df.rows[1].Grade = Q(0, 1)
    /\ \E i \in 1..Len(metrics_df.rows) :
          /\ QLe(Q(1, 1), metrics_df.rows[i].Dist_Diff)
          /\ QLt(Q(4, 10), QDiv(metrics_df.rows[i].Alt_Diff, metrics_df.rows[i].Dist_Diff))
          /\ metrics_df.rows[i].Grade = Q(4, 10)
    /\ \E i \in 1..Len(metrics_df.rows) :
          /\ QLe(Q(1, 1), metrics_df.rows[i].Dist_Diff)
          /\ metrics_df.rows[i].Alt_Diff = Q(0, 1)
          /\ metrics_df.rows[i].Grade = Q(0, 1)

----------------------------------------------------------------------------
(* Splits (C7): tracks of up to SplitTrackLen samples, ten seconds apart,  *)
(* whose cumulative distance (never negative, possibly missing, possibly   *)
(* running backwards) reaches into the third kilometre.                    *)

SplitTrackLen == 3
SplitDistCells == {NULL, Q(0, 1), Q(999, 1), Q(1000, 1), Q(1500, 1), Q(2000, 1),
                   Q(2500, 1)}

InitSplits ==
    InitTrack(UNION {
        {[timestamps |-> [i \in 1..n |-> Q(10 * i, 1)],
          hrs |-> <<Q(150, 1)>>, alts |-> <<>>, dists |-> d,
          lats |-> <<>>, lons |-> <<>>] :
            d \in [1..n -> SplitDistCells]} : n \in 1..SplitTrackLen})

SpecSplits == InitSplits /\ [][Next]_vars

\* C7: _calculate_splits emits split k only for a window [(k-1)*1000, k*1000)
\* with k*1000 <= the track's maximum distance (never the final partial
\* window), and the covered distances of the emitted splits sum to no more
\* than the maximum distance.
C7_WholeWindowsOnly ==
    (pc = "done" /\ metrics_df.st = "df") =>
        /\ \A s \in 1..Len(splits) :
              \E i \in 1..Len(metrics_df.rows) :
                  QLe(Q(splits[s].KM * 1000, 1), metrics_df.rows[i].Distance)
        /\ (\E i \in 1..Len(metrics_df.rows) : ~IsNa(metrics_df.rows[i].Distance)) =>
              \E i \in 1..Len(metrics_df.rows) :
                  QLe(QMul(QSum([s \in 1..Len(splits) |-> splits[s].Distance]),
                           Q(1000, 1)),
                      metrics_df.rows[i].Distance)

\* splits were emitted, the last of them covers some distance, and a row lies
\* beyond its window: the final partial window holds data and is not emitted
C7_Witness ==
    /\ pc = "done"
    /\ splits # <<>>
    /\ QLt(Q(0, 1), splits[Len(splits)].Distance)
    /\ \E i \in 1..Len(metrics_df.rows) :
          QLt(Q(splits[Len(splits)].KM * 1000, 1), metrics_df.rows[i].Distance)

----------------------------------------------------------------------------
(* Heart-rate zones (C2): the deep-dive run next to the three pages that   *)
(* classify the average heart rate of an activity row.  The pages read the *)
(* thresholds of the sidebar and one row of the filtered activity table.   *)

\* page_activity_run_details (activities.py 220-238): rows without an average
\* heart rate are dropped before get_zone is applied
PageActivityRunDetails ==
    /\ page_zone' = [page_zone EXCEPT !.activities =
                        IF IsNa(avg_hr) THEN "no row"
                        ELSE activities_get_zone(avg_hr, zones)]
    /\ UNCHANGED <<pc, args, track_df, metrics_df, splits, zones, hr_zone, avg_hr,
                   fit_file, stream_db, counts, fit_track, fit_laps, diag,
                   tmp_files, file_list, idx, activities, calls, skip_existing,
                   activity_df,
                   conn,
                   loop_km,
                   run>>

\* page_general (general.py 114-129)
PageGeneral ==
    /\ page_zone' = [page_zone EXCEPT !.general =
                        IF IsNa(avg_hr) THEN "no row"
                        ELSE general_get_zone(avg_hr, zones)]
    /\ UNCHANGED <<pc, args, track_df, metrics_df, splits, zones, hr_zone, avg_hr,
                   fit_file, stream_db, counts, fit_track, fit_laps, diag,
                   tmp_files, file_list, idx, activities, calls, skip_existing,
                   activity_df,
                   conn,
                   loop_km,
                   run>>

\* page_races (races.py 95-115)
PageRaces ==
    /\ page_zone' = [page_zone EXCEPT !.races = races_zone_str(avg_hr, zones)]
    /\ UNCHANGED <<pc, args, track_df, metrics_df, splits, zones, hr_zone, avg_hr,
                   fit_file, stream_db, counts, fit_track, fit_laps, diag,
                   tmp_files, file_list, idx, activities, calls, skip_existing,
                   activity_df,
                   conn,
                   loop_km,
                   run>>

NextZones == Next \/ PageActivityRunDetails \/ PageGeneral \/ PageRaces

\* heart rates on and around every threshold of the two threshold settings
HrBounds == {NULL, Q(119, 1), Q(120, 1), Q(144, 1), Q(145, 1), Q(146, 1),
             Q(164, 1), Q(165, 1), Q(174, 1), Q(175, 1), Q(188, 1), Q(189, 1)}
ZoneSettings == {DefaultZones, <<120, 145, 160, 180>>}

InitZones ==
    /\ pc = "create"
    /\ args \in {[timestamps |-> <<Q(0, 1), Q(10, 1)>>, hrs |-> <<h>>,
                  alts |-> <<>>, dists |-> <<Q(0, 1), Q(30, 1)>>,
                  lats |-> <<>>, lons |-> <<>>] : h \in HrBounds}
    /\ zones \in ZoneSettings
    /\ avg_hr \in HrBounds
    /\ fit_file = NoFit
    /\ InitRest
    /\ InitNoImport

SpecZones == InitZones /\ [][NextZones]_vars

\* the zone (1..5) the claim C2 gives a heart rate
C2_Zone(h, z) ==
    IF QLe(h, Q(z[1], 1)) THEN 1
    ELSE IF QLe(h, Q(z[2], 1)) THEN 2
    ELSE IF QLe(h, Q(z[3], 1)) THEN 3
    ELSE IF QLe(h, Q(z[4], 1)) THEN 4
    ELSE 5

\* C2: every zone classifier (get_zone_idx of the deep dive, get_zone of the
\* activities and general pages, the zone of the races page) puts h in Zone1
\* iff h <= z1, Zone2 iff z1 < h <= z2, Zone3 iff z2 < h <= z3, Zone4 iff
\* z3 < h <= z4 and Zone5 iff h > z4.
C2_AllClassifiersInclusive ==
    /\ pc \in {"splits", "done"} =>
          \A i \in 1..Len(metrics_df.rows) :
              ~IsNa(metrics_df.rows[i].HR) =>
                  hr_zone.Zone_Idx[i]
                      = Q(C2_Zone(metrics_df.rows[i].HR, zones) - 1, 1)
    /\ page_zone.activities \notin {"", "no row"} =>
          page_zone.activities
              = <<"Zone 1", "Zone 2", "Zone 3", "Zone 4", "Zone 5">>[C2_Zone(avg_hr, zones)]
    /\ page_zone.general \notin {"", "no row"} =>
          page_zone.general = <<"Z1", "Z2", "Z3", "Z4", "Z5">>[C2_Zone(avg_hr, zones)]
    /\ page_zone.races \notin {"", "N/A"} =>
          page_zone.races = <<"Z1", "Z2", "Z3", "Z4", "Z5">>[C2_Zone(avg_hr, zones)]

----------------------------------------------------------------------------
(* Activity files.  A file is a record                                     *)
(*   [exists, read, kind, gz, name_ok, activity_id, decode, records, tcx]: *)
(* whether it is on disk, whether reading its bytes works ("ok") or raises *)
(* ("raises"), its format ("fit" or "tcx"), whether it is gzipped, whether *)
(* the stem of its name is an integer, that integer, what the decoder or   *)
(* the TCX parser does with it (decode), its FIT record messages and the   *)
(* arrays tcxparser reads from it.                                         *)

\* _parse_fit_messages reports an error (st.error) only from its except
\* clause; the error list of decoder.read() is dropped (file_parsing.py 78,
\* 116-117)
parse_fit_messages_error(file) == file.decode = "raises"

\* parse_fit_file prints an error only from its except clause; the error list
\* of decoder.read() is not looked at (import_streams.py 159, 240-242)
parse_fit_file_error(file) == file.read = "raises" \/ file.decode = "raises"

\* list[i] if i < len(list) and list[i] is not None (import_streams.py 96-121)
TcxValue(list, i) == IF i <= Len(list) THEN list[i] ELSE NULL

\* parse_tcx_file, the body of the loop over the trackpoints
\* (import_streams.py 60-124): a timestamp string that does not parse skips
\* the trackpoint; a start time that does not parse leaves elapsed_seconds out
tcx_stream_record(tcx, i) ==
    [timestamp |-> tcx.time_values[i],
     elapsed_seconds |-> IF IsNum(tcx.time_values[1])
                         THEN QSub(tcx.time_values[i], tcx.time_values[1])
                         ELSE NULL,
     heart_rate |-> PyInt(TcxValue(tcx.hr_values, i)),
     latitude |-> IF i <= Len(tcx.position_values)
                  THEN tcx.position_values[i].lat ELSE NULL,
     longitude |-> IF i <= Len(tcx.position_values)
                   THEN tcx.position_values[i].lon ELSE NULL,
     altitude |-> TcxValue(tcx.altitude_points, i),
     distance |-> TcxValue(tcx.distance_values, i),
     speed |-> NULL,
     cadence |-> PyInt(TcxValue(tcx.cadence_values, i)),
     pace |-> NULL,
     activity_id |-> 0]

RECURSIVE tcx_stream_records(_, _)
tcx_stream_records(tcx, i) ==
    IF i > Len(tcx.time_values) THEN <<>>
    ELSE (IF IsNum(tcx.time_values[i]) THEN <<tcx_stream_record(tcx, i)>> ELSE <<>>)
         \o tcx_stream_records(tcx, i + 1)

\* parse_tcx_file (import_streams.py 16-134): the list of stream records or
\* None, whether the temporary copy of a gzipped file is left on disk, and
\* whether an error was printed
parse_tcx_file(file) ==
    IF file.read = "raises"
    THEN [st |-> "none", recs |-> <<>>, tmp_left |-> FALSE, error |-> TRUE]
    ELSE IF file.decode = "raises"
    THEN [st |-> "none", recs |-> <<>>, tmp_left |-> file.gz, error |-> TRUE]
    ELSE IF file.tcx.time_values = <<>>
    THEN [st |-> "none", recs |-> <<>>, tmp_left |-> file.gz, error |-> FALSE]
    ELSE [st |-> "list", recs |-> tcx_stream_records(file.tcx, 1),
          tmp_left |-> FALSE, error |-> FALSE]

\* the choice of parser in import_activity_streams (import_streams.py 335-339)
parse_stream_file(file) ==
    IF file.kind = "tcx" THEN parse_tcx_file(file)
    ELSE IF file.read = "raises"
    THEN [st |-> "none", recs |-> <<>>, tmp_left |-> FALSE, error |-> TRUE]
    ELSE LET parsed == parse_fit_file(file)
         IN  [st |-> parsed.st, recs |-> parsed.recs, tmp_left |-> FALSE,
              error |-> parse_fit_file_error(file)]

\* the pair load_and_parse_file returns when nothing can be shown
Absent == [track |-> NoneValue, laps |-> "none", tmp_left |-> FALSE, error |-> TRUE]

\* the table load_and_parse_file hands to _calculate_metrics when nothing
\* raises (file_parsing.py 134-140 and 143-164): the cadence list is attached,
\* forward-filled, when it is as long as the table
load_track_table(file) ==
    IF file.kind = "fit"
    THEN LET m == parse_fit_messages(file)
             direct == create_track_df(m.timestamps, m.hrs, m.alts, m.dists,
                                       m.lats, m.lons)
             f == parse_fit(file)
             fallback == create_track_df(f.timestamps, f.hrs, f.alts, f.dists,
                                         f.lats, f.lons)
         IN  IF m.timestamps # <<>>
             THEN (IF direct.rows # <<>> /\ Len(m.cads) = Len(direct.rows)
                   THEN with_cadence(direct, m.cads) ELSE direct)
             ELSE (IF fallback.rows # <<>> /\ m.cads # <<>>
                        /\ Len(m.cads) = Len(fallback.rows)
                   THEN with_cadence(fallback, m.cads) ELSE fallback)
    ELSE create_track_df(file.tcx.time_values, file.tcx.hr_values,
                         file.tcx.altitude_points, file.tcx.distance_values,
                         <<>>, <<>>)

\* what load_and_parse_file returns when no exception reaches its handler
load_and_parse_try(file) ==
    [track |-> calculate_metrics(load_track_table(file)),
     laps |-> IF file.kind = "fit" /\ parse_fit_messages(file).timestamps # <<>>
              THEN "laps" ELSE "empty",
     tmp_left |-> FALSE,
     error |-> file.kind = "fit" /\ parse_fit_messages_error(file)]

load_and_parse_file_unguarded(file) ==
    IF ~file.exists THEN Absent
    ELSE IF file.read = "raises" \/ (file.kind = "tcx" /\ file.decode = "raises")
              \/ load_track_table(file).st = "raised"
    THEN [track |-> Raised, laps |-> "none", tmp_left |-> file.kind = "tcx",
          error |-> FALSE]
    ELSE load_and_parse_try(file)

\* load_and_parse_file (file_parsing.py 122-170): the pair it returns (the
\* track table or None; the lap table "laps", the empty table "empty" or
\* None), whether its temporary file is left on disk, and whether st.error
\* was called
load_and_parse_file(file) ==
    IF ~file.exists THEN Absent
    ELSE IF file.read = "raises" THEN Absent
    ELSE IF file.kind = "tcx" /\ file.decode = "raises"
    THEN [Absent EXCEPT !.tmp_left = TRUE]
    ELSE IF load_track_table(file).st = "raised" THEN Absent
    ELSE load_and_parse_try(file)

----------------------------------------------------------------------------
(* FIT cadence (C8): one FIT file read by the stream import                 *)
(* (import_activity_streams) and by the deep dive (load_and_parse_file).    *)

BatchSize == 1000

\* the batch loop of import_activity_streams (import_streams.py 349-353);
\* fail_at is the number of the batch whose insert raises (0: none does).
\* execute_many commits each batch on its own connection, and a raising batch
\* is rolled back and the exception passed on (db_manager.py 28-45, 91-101)
RECURSIVE insert_batches(_, _, _)
insert_batches(db, stream_records, fail_at) ==
    IF stream_records = <<>> THEN [db |-> db, raised |-> FALSE]
    ELSE IF fail_at = 1 THEN [db |-> db, raised |-> TRUE]
    ELSE insert_batches(
             insert_stream_batch(db, SubSeq(stream_records, 1,
                                            Min(BatchSize, Len(stream_records)))),
             SubSeq(stream_records, BatchSize + 1, Len(stream_records)),
             IF fail_at = 0 THEN 0 ELSE fail_at - 1)

except_uncounted(cnt) == cnt

\* the except clause of the loop body (import_streams.py 364-366)
except_handler(cnt) == [cnt EXCEPT !.errors = @ + 1]

\* import_activity_streams, the body of the loop for one file
\* (import_streams.py 324-366): the store and the counters after it, whether
\* a temporary file is left behind, and what the parser reported ("" when it
\* was not called).  An exception anywhere in the body is caught and counted.
import_file(db, cnt, file, skip, fail_at) ==
    IF ~file.name_ok
    THEN [db |-> db, counts |-> except_handler(cnt),
          tmp_left |-> FALSE, parser |-> ""]
    ELSE IF skip /\ activity_has_streams(db, file.activity_id)
    THEN [db |-> db, counts |-> [cnt EXCEPT !.skipped = @ + 1],
          tmp_left |-> FALSE, parser |-> ""]
    ELSE
    LET parsed == parse_stream_file(file)
        paced == calculate_pace(parsed.recs)
        stream_records == [i \in 1..Len(paced) |->
                              [paced[i] EXCEPT !.activity_id = file.activity_id]]
        stored == insert_batches(db, stream_records, fail_at)
        said == IF parsed.error THEN "error" ELSE "none"
    IN  IF parsed.st = "none" \/ parsed.recs = <<>>
        THEN [db |-> db, counts |-> [cnt EXCEPT !.errors = @ + 1],
              tmp_left |-> parsed.tmp_left, parser |-> said]
        ELSE IF stored.raised
        THEN [db |-> stored.db, counts |-> except_handler(cnt),
              tmp_left |-> parsed.tmp_left, parser |-> said]
        ELSE [db |-> stored.db, counts |-> [cnt EXCEPT !.imported = @ + 1],
              tmp_left |-> parsed.tmp_left, parser |-> said]

\* the batches a file of the model can need, plus one
FailAt == 0..2

MaxRuns == 2

\* import_activity_streams run on a directory that holds the one file
\* fit_file (import_streams.py 285-382)
ImportActivityStreams ==
    /\ pc = "fit"
    /\ counts.imported + counts.skipped + counts.errors < MaxRuns
    /\ \E skip \in BOOLEAN, fail_at \in FailAt :
          LET done == import_file(stream_db, counts, fit_file, skip, fail_at)
          IN  /\ stream_db' = done.db
              /\ counts' = done.counts
              /\ tmp_files' = IF done.tmp_left
                              THEN tmp_files \cup {[by |-> "parse_tcx_file",
                                                    n |-> counts.imported
                                                          + counts.skipped
                                                          + counts.errors]}
                              ELSE tmp_files
              /\ diag' = IF done.parser = "" \/ fit_file.kind = "tcx" THEN diag
                         ELSE [diag EXCEPT !.parse_fit_file = done.parser]
    /\ UNCHANGED <<pc, args, track_df, metrics_df, splits, zones, hr_zone, avg_hr,
                   page_zone, fit_file, fit_track, fit_laps,
                   file_list, idx, activities, calls, skip_existing,
                   activity_df,
                   conn,
                   loop_km,
                   run>>

\* page_recent_activities parses the file of the chosen activity
\* (deep_dive.py 759)
LoadAndParseFile ==
    /\ pc = "fit"
    /\ LET result == load_and_parse_file(fit_file)
           opened == fit_file.exists /\ fit_file.read = "ok"
                        /\ fit_file.kind = "fit"
       IN  /\ fit_track' = result.track
           /\ fit_laps' = result.laps
           /\ tmp_files' = IF result.tmp_left
                           THEN tmp_files \cup {[by |-> "load_and_parse_file", n |-> 0]}
                           ELSE tmp_files
           /\ diag' = [diag EXCEPT
                 !.load_and_parse_file = IF result.error THEN "error" ELSE "none",
                 !.parse_fit_messages =
                     IF ~opened THEN @
                     ELSE IF parse_fit_messages_error(fit_file) THEN "error"
                     ELSE "none",
                 !.parse_fit =
                     IF ~opened \/ parse_fit_messages(fit_file).timestamps # <<>>
                     THEN @
                     ELSE IF parse_fit(fit_file).parsing_error THEN "error"
                     ELSE "none"]
    /\ UNCHANGED <<pc, args, track_df, metrics_df, splits, zones, hr_zone, avg_hr,
                   page_zone, fit_file, stream_db, counts, file_list, idx,
                   activities, calls, skip_existing,
                   activity_df,
                   conn,
                   loop_km,
                   run>>

NextFit == ImportActivityStreams \/ LoadAndParseFile

FitLen == 2
CadenceCells == {NULL, Q(0, 1), Q(90, 1)}
SpeedCells == {NULL, Q(3, 1)}

FitRecord(i, cad, spd) ==
    [timestamp |-> Q(10 * i, 1), heart_rate |-> Q(150, 1),
     position_lat |-> NULL, position_long |-> NULL,
     enhanced_altitude |-> NULL, altitude |-> Q(100, 1),
     distance |-> Q(30 * i, 1), enhanced_speed |-> spd, speed |-> NULL,
     cadence |-> cad]

InitFit ==
    /\ pc = "fit"
    /\ args = NoArgs
    /\ zones = DefaultZones
    /\ avg_hr = NULL
    /\ fit_file \in UNION {
          {[NoFit EXCEPT !.activity_id = 1, !.decode = dec,
                         !.records = [i \in 1..n |-> FitRecord(i, cads[i], spd)]] :
              cads \in [1..n -> CadenceCells], spd \in SpeedCells,
              dec \in {"ok", "errors", "raises"}} : n \in 0..FitLen}
    /\ InitRest
    /\ InitNoImport

SpecFit == InitFit /\ [][NextFit]_vars

\* C8: for every FIT record with a non-null raw cadence c, the cadence the
\* stream import stores (parse_fit_file, then insert_stream_batch) and the
\* cadence shown from direct file parsing (_parse_fit_messages) both equal
\* 2 * c.
C8_CadenceDoubledOnBothPaths ==
    /\ \A i \in 1..Len(stream_db) :
          LET raw == fit_file.records[((i - 1) % Len(fit_file.records)) + 1].cadence
          IN  ~IsNa(raw) => stream_db[i].cadence = QMul(raw, Q(2, 1))
    /\ fit_track.st = "df" =>
          \A i \in 1..Len(fit_track.rows) :
              ~IsNa(fit_file.records[i].cadence) =>
                  fit_track.rows[i].cadence = QMul(fit_file.records[i].cadence, Q(2, 1))

----------------------------------------------------------------------------
(* The stream import (C11, C12, C13): import_activity_streams going        *)
(* through a directory of activity files.                                  *)

\* one turn of the loop over all_files (import_streams.py 324-366)
ImportNextFile ==
    /\ pc = "import"
    /\ idx < Len(file_list)
    /\ \E fail_at \in FailAt :
          LET file == file_list[idx + 1]
              done == import_file(stream_db, counts, file, skip_existing, fail_at)
          IN  /\ stream_db' = done.db
              /\ counts' = done.counts
              /\ tmp_files' = IF done.tmp_left
                              THEN tmp_files \cup {[by |-> "parse_tcx_file",
                                                    n |-> idx + 1]}
                              ELSE tmp_files
              /\ diag' = IF done.parser = "" \/ file.kind = "tcx" THEN diag
                         ELSE [diag EXCEPT !.parse_fit_file = done.parser]
    /\ idx' = idx + 1
    /\ UNCHANGED <<pc, args, track_df, metrics_df, splits, zones, hr_zone, avg_hr,
                   page_zone, fit_file, fit_track, fit_laps, file_list,
                   activities, calls, skip_existing,
                   activity_df,
                   conn,
                   loop_km,
                   run>>

\* the end of the loop: the summary is printed (import_streams.py 368-382)
ImportComplete ==
    /\ pc = "import"
    /\ idx = Len(file_list)
    /\ pc' = "imported"
    /\ UNCHANGED <<args, track_df, metrics_df, splits, zones, hr_zone, avg_hr,
                   page_zone, fit_file, stream_db, counts, fit_track, fit_laps,
                   diag, tmp_files, file_list, idx, activities, calls,
                   skip_existing,
                   activity_df,
                   conn,
                   loop_km,
                   run>>

NextImport == ImportNextFile \/ ImportComplete

MaxFiles == 2

FitOf(id, n) ==
    [NoFit EXCEPT !.activity_id = id,
                  !.records = [i \in 1..n |-> FitRecord(i, Q(90, 1), Q(3, 1))]]
TcxOf(id, ts) ==
    [NoFit EXCEPT !.activity_id = id, !.kind = "tcx", !.gz = TRUE,
                  !.tcx = [NoTcx EXCEPT !.time_values = ts,
                                        !.hr_values = <<Q(150, 1)>>,
                                        !.distance_values = [i \in 1..Len(ts) |->
                                                                Q(30 * i, 1)]]]

\* files that import, that have a name without an activity id, that do not
\* decode, that hold no trackpoint, that cannot be read
SmallFiles ==
    {FitOf(1, 1), [FitOf(1, 1) EXCEPT !.name_ok = FALSE],
     [FitOf(2, 1) EXCEPT !.decode = "raises"],
     TcxOf(3, <<Q(0, 1), TEXT, Q(20, 1)>>), TcxOf(3, <<>>),
     [TcxOf(3, <<Q(0, 1)>>) EXCEPT !.decode = "raises"],
     [TcxOf(3, <<Q(0, 1)>>) EXCEPT !.read = "raises"]}

\* a file of one record more than a batch holds
BigFile == FitOf(4, BatchSize + 1)

InitImport ==
    /\ pc = "import"
    /\ args = NoArgs
    /\ zones = DefaultZones
    /\ avg_hr = NULL
    /\ fit_file = NoFit
    /\ file_list \in SeqOf(SmallFiles, 0..MaxFiles)
                        \cup {<<BigFile>>, <<BigFile, FitOf(1, 1)>>}
    /\ skip_existing \in BOOLEAN
    /\ InitRest

SpecImport == InitImport /\ [][NextImport]_vars

ImportFails(file) ==
    \/ ~file.name_ok
    \/ file.read = "raises"
    \/ file.decode = "raises"
    \/ (file.kind = "tcx" /\ file.tcx.time_values = <<>>)

\* C11: import_activity_streams goes through every file once, in list order,
\* whatever happens to each (no activity id in the name, nothing parsed, an
\* exception from the parser or the store, success, already imported); a
\* failure never stops the loop, and at the end imported_count +
\* skipped_count + error_count is the number of files.
C11_EveryFileCounted ==
    /\ counts.imported + counts.skipped + counts.errors = idx
    /\ idx <= Len(file_list)
    /\ pc = "imported" => idx = Len(file_list)
    /\ \A r \in 1..Len(stream_db) :
          \E i \in 1..idx : /\ file_list[i].activity_id = stream_db[r].activity_id
                            /\ ~ImportFails(file_list[i])
    /\ \A i \in 1..idx :
          (ImportFails(file_list[i])
              /\ \A j \in 1..idx : j # i =>
                    file_list[j].activity_id # file_list[i].activity_id)
            => ~activity_has_streams(stream_db, file_list[i].activity_id)

\* the import is over, its first file failed and its second was imported
C11_Witness ==
    /\ pc = "imported"
    /\ Len(file_list) = 2
    /\ ImportFails(file_list[1])
    /\ counts = [imported |-> 1, skipped |-> 0, errors |-> 1]
    /\ activity_has_streams(stream_db, file_list[2].activity_id)

StreamCount(db, activity_id) ==
    Len(SelectSeq(db, LAMBDA r : r.activity_id = activity_id))

\* C12: whenever import_activity_streams counts a file as an error, the
\* store holds no stream record of that file's activity written by this run
\* (also when the file has more than 1000 records and a batch after the first
\* fails).
C12_NoRecordOfFailedFile ==
    [][(/\ pc = "import"
        /\ idx < Len(file_list)
        /\ counts'.errors = counts.errors + 1
        /\ file_list[idx + 1].name_ok)
       => StreamCount(stream_db', file_list[idx + 1].activity_id)
              = StreamCount(stream_db, file_list[idx + 1].activity_id)]_vars

\* C13: after parse_tcx_file or load_and_parse_file returns by any path, no
\* temporary file created by that call still exists.
C13_NoTempFileLeft == tmp_files = {}

----------------------------------------------------------------------------
(* File readers (C14, C16, C17, C18): one activity file read by the stream *)
(* import and by the deep dive.  The FIT records carry an enhanced and a   *)
(* legacy altitude and a position in semicircles; the decoder returns      *)
(* cleanly, returns what it decoded with an error list, or raises; the     *)
(* file may be missing, unreadable, or a TCX file.                         *)

EnhancedCells == {NULL, Q(0, 1), Q(50, 1)}
LegacyCells == {NULL, Q(100, 1)}
SemicircleCells == {NULL, Q(100, 1), Q(536870912, 1)}

FieldRecord(i, enhanced, legacy, semi) ==
    [FitRecord(i, Q(90, 1), Q(3, 1)) EXCEPT !.enhanced_altitude = enhanced,
                                            !.altitude = legacy,
                                            !.position_lat = semi,
                                            !.position_long = semi]

FieldFiles ==
    {[NoFit EXCEPT !.activity_id = 1, !.decode = dec,
                   !.records = <<FieldRecord(1, e, l, p)>> \o tail] :
        e \in EnhancedCells, l \in LegacyCells, p \in SemicircleCells,
        dec \in {"ok", "errors"},
        tail \in {<<>>, <<FieldRecord(2, NULL, Q(110, 1), Q(-536870912, 1))>>}}

OtherFiles ==
    {[NoFit EXCEPT !.activity_id = 1, !.exists = FALSE],
     [FitOf(1, 1) EXCEPT !.read = "raises"],
     [FitOf(1, 1) EXCEPT !.decode = "raises"],
     [NoFit EXCEPT !.activity_id = 1, !.decode = "errors"],
     TcxOf(1, <<Q(0, 1), Q(10, 1)>>), TcxOf(1, <<>>),
     [TcxOf(1, <<Q(0, 1)>>) EXCEPT !.decode = "raises"],
     [TcxOf(1, <<Q(0, 1)>>) EXCEPT !.read = "raises"],
     [TcxOf(1, <<Q(0, 1)>>) EXCEPT !.exists = FALSE]}

InitFiles ==
    /\ pc = "fit"
    /\ args = NoArgs
    /\ zones = DefaultZones
    /\ avg_hr = NULL
    /\ fit_file \in FieldFiles \cup OtherFiles
    /\ InitRest
    /\ InitNoImport

SpecFiles == InitFiles /\ [][NextFit]_vars

Loaded == fit_laps # "unset"
PartlyDecoded == fit_file.kind = "fit" /\ fit_file.decode = "errors"

\* C14: when FIT decoding fails after some records were decoded, every FIT
\* reader (_parse_fit, _parse_fit_messages, parse_fit_file) returns the
\* records decoded before the failure together with a diagnostic, and never
\* discards them.
C14_PartialRecordsWithDiagnostic ==
    PartlyDecoded =>
        /\ Loaded =>
              /\ diag.parse_fit_messages = "error"
              /\ fit_file.records # <<>> =>
                    (fit_track.st = "df"
                        /\ Len(fit_track.rows) = Len(fit_file.records))
        /\ diag.parse_fit # "" => diag.parse_fit = "error"
        /\ diag.parse_fit_file # "" => diag.parse_fit_file = "error"
        /\ counts.imported > 0 =>
              StreamCount(stream_db, fit_file.activity_id)
                  = counts.imported * Len(fit_file.records)

\* C16: for every FIT record with both an enhanced_altitude and a legacy
\* altitude, every FIT reader uses the enhanced value as the altitude, for
\* every numeric enhanced value, 0 included.
C16_EnhancedAltitudePreferred ==
    fit_file.kind = "fit" =>
        /\ (Loaded /\ fit_track.st = "df") =>
              \A i \in 1..Len(fit_track.rows) :
                  (IsNum(fit_file.records[i].enhanced_altitude)
                      /\ IsNum(fit_file.records[i].altitude))
                    => fit_track.rows[i].Altitude
                          = fit_file.records[i].enhanced_altitude
        /\ \A i \in 1..Len(stream_db) :
              LET record == fit_file.records[((i - 1) % Len(fit_file.records)) + 1]
              IN  (IsNum(record.enhanced_altitude) /\ IsNum(record.altitude))
                    => stream_db[i].altitude = record.enhanced_altitude

\* C17: every latitude and longitude a caller gets for a FIT record, from
\* load_and_parse_file or from parse_fit_file, is the record's semicircle
\* value * 180 / 2^31, also for values of magnitude <= 180.
C17_PositionsAlwaysConverted ==
    fit_file.kind = "fit" =>
        /\ (Loaded /\ fit_track.st = "df") =>
              \A i \in 1..Len(fit_track.rows) :
                  IsNum(fit_file.records[i].position_lat) =>
                      /\ fit_track.rows[i].latitude
                            = QMul(fit_file.records[i].position_lat, SemicircleFactor)
                      /\ fit_track.rows[i].longitude
                            = QMul(fit_file.records[i].position_long, SemicircleFactor)
        /\ \A i \in 1..Len(stream_db) :
              LET record == fit_file.records[((i - 1) % Len(fit_file.records)) + 1]
              IN  IsNum(record.position_lat) =>
                      /\ stream_db[i].latitude
                            = QMul(record.position_lat, SemicircleFactor)
                      /\ stream_db[i].longitude
                            = QMul(record.position_long, SemicircleFactor)

\* C18 as stated: load_and_parse_file never propagates an exception; when
\* the file does not exist, or reading or parsing it raises, it returns
\* (None, None).
C18_FailureGivesNoneNone ==
    Loaded =>
        /\ fit_track.st # "raised"
        /\ (~fit_file.exists \/ fit_file.read = "raises"
               \/ fit_file.decode = "raises")
             => (fit_track = NoneValue /\ fit_laps = "none")

\* C18 amended: load_and_parse_file never propagates an exception; when the
\* file does not exist or an exception reaches its handler (reading raises,
\* the TCX parser raises) it returns (None, None); when the FIT decoder
\* raises, the FIT readers swallow the exception and it returns None with an
\* empty lap table.
C18_NeverPropagates ==
    Loaded =>
        /\ fit_track.st # "raised"
        /\ (~fit_file.exists \/ fit_file.read = "raises"
               \/ (fit_file.kind = "tcx" /\ fit_file.decode = "raises"))
             => (fit_track = NoneValue /\ fit_laps = "none"
                    /\ diag.load_and_parse_file = "error")
        /\ (fit_file.exists /\ fit_file.read = "ok" /\ fit_file.kind = "fit"
               /\ fit_file.decode = "raises")
             => (fit_track = NoneValue /\ fit_laps = "empty"
                    /\ diag.load_and_parse_file = "error")

\* an existing file whose bytes cannot be read was asked for
C18_Witness ==
    /\ Loaded
    /\ fit_file.exists
    /\ fit_file.read = "raises"
    /\ fit_track = NoneValue

----------------------------------------------------------------------------
(* The stream store (C19): callers insert batches of stream records and    *)
(* delete the records of an activity in any order; calls keeps the calls   *)
(* made so far.                                                            *)

delete_all_streams(db, activity_id) == <<>>

\* DatabaseManager.delete_activity_streams (db_manager.py 176-179)
delete_activity_streams(db, activity_id) ==
    SelectSeq(db, LAMBDA row : row.activity_id # activity_id)

\* the rows before which a row of the given time is placed
RowsUpTo(rows, time) ==
    Cardinality({i \in 1..Len(rows) : QLe(rows[i].elapsed_seconds, time)})

RECURSIVE InTimeOrder(_)
InTimeOrder(rows) ==
    IF rows = <<>> THEN <<>>
    ELSE LET row == rows[Len(rows)]
             sorted == InTimeOrder(SubSeq(rows, 1, Len(rows) - 1))
             k == RowsUpTo(sorted, row.elapsed_seconds)
         IN  SubSeq(sorted, 1, k) \o <<row>> \o SubSeq(sorted, k + 1, Len(sorted))

\* DatabaseManager.get_activity_stream (db_manager.py 162-174) runs the
\* query get_activity_stream: the rows of the activity in time order
get_activity_stream(db, activity_id) ==
    InTimeOrder(SelectSeq(db, LAMBDA row : row.activity_id = activity_id))

MaxStreamCalls == 3
StreamActivities == 1..3

Sample(activity_id, seconds) ==
    [activity_id |-> activity_id, elapsed_seconds |-> Q(seconds, 1)]
HrSample(activity_id, seconds, hr) ==
    [activity_id |-> activity_id, elapsed_seconds |-> Q(seconds, 1),
     heart_rate |-> Q(hr, 1)]

StreamBatches ==
    {<<>>,
     <<HrSample(1, 1, 142), HrSample(1, 0, 140)>>,
     <<HrSample(2, 0, 150)>>,
     <<HrSample(1, 2, 145), HrSample(2, 1, 151)>>,
     <<Sample(1, 3), HrSample(1, 4, 150)>>,
     <<HrSample(2, 2, 152), Sample(2, 3)>>}

InsertStreamBatch ==
    /\ pc = "streams"
    /\ Len(calls) < MaxStreamCalls
    /\ \E stream_records \in StreamBatches :
          /\ stream_db' = insert_stream_batch(stream_db, stream_records)
          /\ calls' = Append(calls,
                [op |-> "insert_stream_batch", records |-> stream_records,
                 raised |-> insert_stream_batch_raises(stream_records)])
    /\ UNCHANGED <<pc, args, track_df, metrics_df, splits, zones, hr_zone, avg_hr,
                   page_zone, fit_file, counts, fit_track, fit_laps, diag,
                   tmp_files, file_list, idx, activities, skip_existing,
                   activity_df,
                   conn,
                   loop_km,
                   run>>

DeleteActivityStreams ==
    /\ pc = "streams"
    /\ Len(calls) < MaxStreamCalls
    /\ \E activity_id \in StreamActivities :
          /\ stream_db' = delete_activity_streams(stream_db, activity_id)
          /\ calls' = Append(calls,
                [op |-> "delete_activity_streams", activity_id |-> activity_id])
    /\ UNCHANGED <<pc, args, track_df, metrics_df, splits, zones, hr_zone, avg_hr,
                   page_zone, fit_file, counts, fit_track, fit_laps, diag,
                   tmp_files, file_list, idx, activities, skip_existing,
                   activity_df,
                   conn,
                   loop_km,
                   run>>

NextStreams == InsertStreamBatch \/ DeleteActivityStreams

InitStreams ==
    /\ pc = "streams"
    /\ args = NoArgs
    /\ zones = DefaultZones
    /\ avg_hr = NULL
    /\ fit_file = NoFit
    /\ InitRest
    /\ InitNoImport

SpecStreams == InitStreams /\ [][NextStreams]_vars

\* the records handed over for the activity by the calls made, less those
\* deleted by a later call
RECURSIVE InsertedFor(_, _)
InsertedFor(made, activity_id) ==
    IF made = <<>> THEN <<>>
    ELSE LET call == made[Len(made)]
             before == InsertedFor(SubSeq(made, 1, Len(made) - 1), activity_id)
         IN  IF call.op = "delete_activity_streams"
             THEN IF call.activity_id = activity_id THEN <<>> ELSE before
             ELSE IF call.raised THEN before
             ELSE before \o SelectSeq(call.records,
                                      LAMBDA r : r.activity_id = activity_id)

SampleKeys(rows) == [i \in 1..Len(rows) |-> rows[i].elapsed_seconds]
Occurrences(s, v) == Cardinality({i \in 1..Len(s) : s[i] = v})
SameSamples(got, want) ==
    /\ Len(got) = Len(want)
    /\ \A i \in 1..Len(want) :
          Occurrences(SampleKeys(got), want[i].elapsed_seconds)
              = Occurrences(SampleKeys(want), want[i].elapsed_seconds)

----------------------------------------------------------------------------
(* The activities table (C20): insert_activity called with any rows in any *)
(* order.                                                                  *)

\* the schema keeps one row per activity: two rows conflict when they have
\* the same activity_id
same_activity(row, activity_data) == row.activity_id = activity_data.activity_id

insert_activity_append(table, activity_data) == Append(table, activity_data)

\* DatabaseManager.insert_activity (db_manager.py 103-120): INSERT OR
\* REPLACE removes the conflicting row and adds the new one
insert_activity(table, activity_data) ==
    Append(SelectSeq(table, LAMBDA row : ~same_activity(row, activity_data)),
           activity_data)

\* DatabaseManager.get_activity_count (db_manager.py 143-146)
get_activity_count(table) == Len(table)

MaxActivityCalls == 3
ActivityIds == 1..2

ActivityRows ==
    {[activity_id |-> id, activity_name |-> name] :
        id \in ActivityIds, name \in {"Run 1", "Ride 1"}}
      \cup {[activity_id |-> 1, activity_name |-> "Run 1", distance |-> Q(5, 1)]}

InsertActivity ==
    /\ pc = "activities"
    /\ Len(calls) < MaxActivityCalls
    /\ \E activity_data \in ActivityRows :
          /\ activities' = insert_activity(activities, activity_data)
          /\ calls' = Append(calls, activity_data)
    /\ UNCHANGED <<pc, args, track_df, metrics_df, splits, zones, hr_zone, avg_hr,
                   page_zone, fit_file, stream_db, counts, fit_track, fit_laps,
                   diag, tmp_files, file_list, idx, skip_existing,
                   activity_df,
                   conn,
                   loop_km,
                   run>>

NextActivities == InsertActivity

InitActivities ==
    /\ pc = "activities"
    /\ args = NoArgs
    /\ zones = DefaultZones
    /\ avg_hr = NULL
    /\ fit_file = NoFit
    /\ InitRest
    /\ InitNoImport

SpecActivities == InitActivities /\ [][NextActivities]_vars

RowsOf(table, id) == SelectSeq(table, LAMBDA row : row.activity_id = id)

\* C20: after any sequence of insert_activity calls, the activities table
\* holds exactly one row per distinct activity_id, that row holds the fields
\* of the most recent insert for that id, and get_activity_count equals the
\* number of distinct activity_ids inserted.
C20_OneRowPerActivity ==
    /\ \A id \in ActivityIds :
          LET inserted == RowsOf(calls, id)
          IN  RowsOf(activities, id)
                = IF inserted = <<>> THEN <<>> ELSE <<inserted[Len(inserted)]>>
    /\ get_activity_count(activities)
          = Cardinality({calls[i].activity_id : i \in 1..Len(calls)})

\* an activity was inserted again with other fields after another activity
C20_Witness ==
    /\ Len(calls) = 3
    /\ calls[1].activity_id = 1
    /\ calls[2].activity_id = 2
    /\ calls[3].activity_id = 1
    /\ calls[3] # calls[1]
    /\ get_activity_count(activities) = 2

----------------------------------------------------------------------------
(* load_data (C21): the activity rows read from the database get their     *)
(* pace_decimal column.                                                    *)

pace_decimal_unguarded(x) == QDiv(QDiv(x.moving_time, Q(60, 1)), x.distance)

\* the lambda of load_data (data.py 44)
pace_decimal(x) ==
    IF IsNum(x.distance) /\ QGt(x.distance, Q(0, 1))
    THEN QDiv(QDiv(x.moving_time, Q(60, 1)), x.distance)
    ELSE NULL

\* a column whose values are all None keeps None, and comparing or dividing
\* None raises TypeError (data.py 29, 44)
load_data_raises(rows) ==
    \/ \A i \in 1..Len(rows) : IsNa(rows[i].distance)
    \/ /\ \A i \in 1..Len(rows) : IsNa(rows[i].moving_time)
       /\ \E i \in 1..Len(rows) : QGt(rows[i].distance, Q(0, 1))

\* load_data (data.py 7-52): the empty table when there is no row or when
\* anything raises, else the rows with pace_decimal
load_data(rows) ==
    IF rows = <<>> \/ load_data_raises(rows)
    THEN [st |-> "df", columns |-> <<>>, rows |-> <<>>]
    ELSE [st |-> "df",
          columns |-> <<"activity_id", "moving_time", "distance", "pace_decimal">>,
          rows |-> [i \in 1..Len(rows) |->
                      [activity_id |-> rows[i].activity_id,
                       moving_time |-> rows[i].moving_time,
                       distance |-> rows[i].distance,
                       pace_decimal |-> pace_decimal(rows[i])]]]

LoadData ==
    /\ pc = "data"
    /\ pc' = "loaded"
    /\ activity_df' = load_data(activities)
    /\ UNCHANGED <<args, track_df, metrics_df, splits, zones, hr_zone, avg_hr,
                   page_zone, fit_file, stream_db, counts, fit_track, fit_laps,
                   diag, tmp_files, file_list, idx, activities, calls,
                   skip_existing,
                   conn,
                   loop_km,
                   run>>

NextData == LoadData

MaxActivities == 2
MovingTimeCells == {NULL, Q(0, 1), Q(360, 1)}
ActivityDistCells == {NULL, Q(-1, 1), Q(0, 1), Q(1, 1), Q(5, 1)}

InitData ==
    /\ pc = "data"
    /\ args = NoArgs
    /\ zones = DefaultZones
    /\ avg_hr = NULL
    /\ fit_file = NoFit
    /\ track_df = Unset
    /\ metrics_df = Unset
    /\ splits = <<>>
    /\ hr_zone = NoHrZone
    /\ page_zone = NoPages
    /\ stream_db = <<>>
    /\ counts = NoCounts
    /\ fit_track = Unset
    /\ fit_laps = "unset"
    /\ diag = NoDiag
    /\ tmp_files = {}
    /\ idx = 0
    /\ calls = <<>>
    /\ activity_df = Unset
    /\ conn = NoConn
    /\ loop_km = 0
    /\ run = 1
    /\ InitNoImport
    /\ activities \in UNION {
          {[i \in 1..n |-> [activity_id |-> i, moving_time |-> mt[i],
                            distance |-> dist[i]]] :
              mt \in [1..n -> MovingTimeCells],
              dist \in [1..n -> ActivityDistCells]} : n \in 0..MaxActivities}

SpecData == InitData /\ [][NextData]_vars

\* C21: for every activity row load_data returns, pace_decimal equals
\* (moving_time / 60) / distance when distance > 0 and is null when distance
\* is 0 or negative; a zero distance never causes a division by zero.
C21_PaceDecimal ==
    pc = "loaded" =>
        /\ activity_df.st = "df"
        /\ \A i \in 1..Len(activity_df.rows) :
              LET x == activity_df.rows[i]
              IN  /\ (IsNum(x.distance) /\ QGt(x.distance, Q(0, 1)))
                        => x.pace_decimal
                             = QDiv(QDiv(x.moving_time, Q(60, 1)), x.distance)
                  /\ (IsNum(x.distance) /\ ~QGt(x.distance, Q(0, 1)))
                        => x.pace_decimal = NULL
                  /\ ~IsInf(x.pace_decimal)

\* a row of distance 0 and a row of 360 s over 1 km were loaded
C21_Witness ==
    /\ pc = "loaded"
    /\ \E i \in 1..Len(activity_df.rows) :
          activity_df.rows[i].distance = Q(0, 1) /\ activity_df.rows[i].pace_decimal = NULL
    /\ \E i \in 1..Len(activity_df.rows) :
          activity_df.rows[i].distance = Q(1, 1) /\ activity_df.rows[i].pace_decimal = Q(6, 1)

----------------------------------------------------------------------------
(* One insert_stream_batch call step by step (C22): get_connection opens a *)
(* connection, executemany writes the rows one after the other inside a    *)
(* transaction and may raise at any row, then the context manager commits  *)
(* or rolls back, and closes.  stream_db is the content of the table in    *)
(* the database file; conn.journal is what a rollback restores.            *)

rollback_nothing(db, c) == db

\* get_connection, the except clause (db_manager.py 41-43): conn.rollback()
rollback(db, c) == IF c.in_tx THEN c.journal ELSE db

\* get_connection, the finally clause (db_manager.py 44-45): closing a
\* connection with an open transaction discards the transaction
close(db, c) == IF c.in_tx THEN c.journal ELSE db

\* the row executemany writes for a record of the batch
\* (db_manager.py 133-139)
batch_row(stream_records, i) ==
    [col \in DOMAIN stream_records[1] |-> stream_records[i][col]]

\* insert_stream_batch up to the call of execute_many (db_manager.py 129-141):
\* an empty batch returns, a record without a column of the first raises
\* KeyError, else get_connection connects (db_manager.py 36-37, 99)
BatchBegin ==
    /\ pc = "idle"
    /\ Len(calls) < MaxStreamCalls
    /\ \E stream_records \in StreamBatches :
          IF stream_records = <<>> \/ insert_stream_batch_raises(stream_records)
          THEN /\ calls' = Append(calls,
                     [op |-> "insert_stream_batch", records |-> stream_records,
                      raised |-> insert_stream_batch_raises(stream_records),
                      written |-> 0])
               /\ UNCHANGED <<pc, conn,
                   loop_km,
                   run>>
          ELSE /\ pc' = "execute"
               /\ conn' = [NoConn EXCEPT !.open = TRUE, !.batch = stream_records]
               /\ UNCHANGED calls
    /\ UNCHANGED <<args, track_df, metrics_df, splits, zones, hr_zone, avg_hr,
                   page_zone, fit_file, stream_db, counts, fit_track, fit_laps,
                   diag, tmp_files, file_list, idx, activities, skip_existing,
                   activity_df,
                   loop_km,
                   run>>

\* cursor.executemany (db_manager.py 100-101): the next row is written, the
\* first one opening the transaction
ExecuteRow ==
    /\ pc = "execute"
    /\ conn.done < Len(conn.batch)
    /\ stream_db' = Append(stream_db, batch_row(conn.batch, conn.done + 1))
    /\ conn' = [conn EXCEPT !.done = @ + 1,
                            !.in_tx = TRUE,
                            !.journal = IF conn.in_tx THEN @ ELSE stream_db]
    /\ UNCHANGED <<pc, args, track_df, metrics_df, splits, zones, hr_zone, avg_hr,
                   page_zone, fit_file, counts, fit_track, fit_laps, diag,
                   tmp_files, file_list, idx, activities, calls, skip_existing,
                   activity_df,
                   loop_km,
                   run>>

\* cursor.executemany raises sqlite3.Error at the next row: control goes to
\* the except clause of get_connection
ExecuteRaises ==
    /\ pc = "execute"
    /\ conn.done < Len(conn.batch)
    /\ pc' = "except"
    /\ conn' = [conn EXCEPT !.raised = TRUE]
    /\ UNCHANGED <<args, track_df, metrics_df, splits, zones, hr_zone, avg_hr,
                   page_zone, fit_file, stream_db, counts, fit_track, fit_laps,
                   diag, tmp_files, file_list, idx, activities, calls,
                   skip_existing, activity_df,
                   loop_km,
                   run>>

\* get_connection after the yield (db_manager.py 40): conn.commit() keeps
\* the rows, or raises and control goes to the except clause
Commit ==
    /\ pc = "execute"
    /\ conn.done = Len(conn.batch)
    /\ \/ /\ pc' = "finally"
          /\ conn' = [conn EXCEPT !.in_tx = FALSE, !.journal = <<>>]
       \/ /\ pc' = "except"
          /\ conn' = [conn EXCEPT !.raised = TRUE]
    /\ UNCHANGED <<args, track_df, metrics_df, splits, zones, hr_zone, avg_hr,
                   page_zone, fit_file, stream_db, counts, fit_track, fit_laps,
                   diag, tmp_files, file_list, idx, activities, calls,
                   skip_existing, activity_df,
                   loop_km,
                   run>>

\* get_connection, except clause (db_manager.py 41-43)
Rollback ==
    /\ pc = "except"
    /\ pc' = "finally"
    /\ stream_db' = rollback(stream_db, conn)
    /\ conn' = [conn EXCEPT !.in_tx = FALSE, !.journal = <<>>]
    /\ UNCHANGED <<args, track_df, metrics_df, splits, zones, hr_zone, avg_hr,
                   page_zone, fit_file, counts, fit_track, fit_laps, diag,
                   tmp_files, file_list, idx, activities, calls, skip_existing,
                   activity_df,
                   loop_km,
                   run>>

\* get_connection, finally clause (db_manager.py 44-45), and the return of
\* insert_stream_batch to its caller
Close ==
    /\ pc = "finally"
    /\ pc' = "idle"
    /\ stream_db' = close(stream_db, conn)
    /\ conn' = NoConn
    /\ calls' = Append(calls,
          [op |-> "insert_stream_batch", records |-> conn.batch,
           raised |-> conn.raised, written |-> conn.done])
    /\ UNCHANGED <<args, track_df, metrics_df, splits, zones, hr_zone, avg_hr,
                   page_zone, fit_file, counts, fit_track, fit_laps, diag,
                   tmp_files, file_list, idx, activities, skip_existing,
                   activity_df,
                   loop_km,
                   run>>

NextBatch ==
    BatchBegin \/ ExecuteRow \/ ExecuteRaises \/ Commit \/ Rollback \/ Close

InitBatch ==
    /\ pc = "idle"
    /\ args = NoArgs
    /\ zones = DefaultZones
    /\ avg_hr = NULL
    /\ fit_file = NoFit
    /\ InitRest
    /\ InitNoImport

SpecBatch == InitBatch /\ [][NextBatch]_vars

\* the table after the calls made: the whole batch of every call that
\* returned, nothing of a call that raised
RECURSIVE StoredBy(_)
StoredBy(made) ==
    IF made = <<>> THEN <<>>
    ELSE LET call == made[Len(made)]
             before == StoredBy(SubSeq(made, 1, Len(made) - 1))
         IN  IF call.raised THEN before
             ELSE insert_stream_batch(before, call.records)

\* C22: each insert_stream_batch call is atomic: either all records of the
\* batch are stored or none is (an exception during the insert rolls the
\* whole batch back), an empty batch changes nothing, and the connection
\* opened for the call is closed on the commit path and on the rollback path.
C22_BatchAtomic ==
    pc = "idle" =>
        /\ ~conn.open
        /\ ~conn.in_tx
        /\ stream_db = StoredBy(calls)

\* a call raised after its first row was written, and a later call stored
\* its whole batch
C22_Witness ==
    /\ pc = "idle"
    /\ Len(calls) = 2
    /\ calls[1].raised /\ calls[1].written = 1
    /\ ~calls[2].raised /\ calls[2].written = 2
    /\ Len(stream_db) = 2

----------------------------------------------------------------------------
(* The window loop of _calculate_splits, one iteration per step (C23).     *)

max_dist(track) == ColMax([i \in 1..Len(track.rows) |-> track.rows[i].Distance])

while_inclusive(km, max) == QLe(Q(km * SplitLen, 1), max)

\* the loop test `loop_km * 1000 < max_dist` (activity_processing.py 126):
\* false when max_dist is NaN
while_test(km, max) == QLt(Q(km * SplitLen, 1), max)

\* lines 118-119 and 125: the early return on an empty table, else
\* current_km = 0
SplitsBegin ==
    /\ pc = "splits"
    /\ pc' = IF metrics_df.rows = <<>> THEN "done" ELSE "while"
    /\ splits' = <<>>
    /\ loop_km' = 0
    /\ UNCHANGED <<args, track_df, metrics_df, zones, hr_zone, avg_hr, page_zone,
                   fit_file, stream_db, counts, fit_track, fit_laps, diag,
                   tmp_files, file_list, idx, activities, calls, skip_existing,
                   activity_df, conn,
                   run>>

\* one iteration of the loop body (lines 127-165)
SplitsIteration ==
    /\ pc = "while"
    /\ while_test(loop_km, max_dist(metrics_df))
    /\ splits' = splits \o
          (IF QLe(Q((loop_km + 1) * SplitLen, 1), max_dist(metrics_df))
           THEN SplitOfWindow(metrics_df, loop_km)
           ELSE <<>>)
    /\ loop_km' = loop_km + 1
    /\ UNCHANGED <<pc, args, track_df, metrics_df, zones, hr_zone, avg_hr,
                   page_zone, fit_file, stream_db, counts, fit_track, fit_laps,
                   diag, tmp_files, file_list, idx, activities, calls,
                   skip_existing, activity_df, conn,
                   run>>

\* the loop test fails: return pd.DataFrame(splits) (line 167)
SplitsReturn ==
    /\ pc = "while"
    /\ ~while_test(loop_km, max_dist(metrics_df))
    /\ pc' = "done"
    /\ UNCHANGED <<args, track_df, metrics_df, splits, zones, hr_zone, avg_hr,
                   page_zone, fit_file, stream_db, counts, fit_track, fit_laps,
                   diag, tmp_files, file_list, idx, activities, calls,
                   skip_existing, activity_df, conn, loop_km,
                   run>>

NextLoop ==
    \/ CreateTrackDf
    \/ CalculateMetrics
    \/ RenderHrAnalysis
    \/ SplitsBegin
    \/ SplitsIteration
    \/ SplitsReturn

\* tracks of up to LoopTrackLen samples whose distance is missing, negative,
\* zero, or lies in the first, second or third kilometre
LoopTrackLen == 2
LoopDistCells == {NULL, Q(-500, 1), Q(0, 1), Q(1, 1), Q(1000, 1), Q(1001, 1),
                  Q(2500, 1)}

InitLoop ==
    InitTrack(UNION {
        {[timestamps |-> [i \in 1..n |-> Q(10 * i, 1)],
          hrs |-> <<Q(150, 1)>>, alts |-> <<>>, dists |-> d,
          lats |-> <<>>, lons |-> <<>>] :
            d \in [1..n -> LoopDistCells]} : n \in 1..LoopTrackLen})

\* what an iteration does to the loop counter
IterationStep ==
    /\ pc = "while"
    /\ while_test(loop_km, max_dist(metrics_df))
    /\ loop_km' = loop_km + 1

\* the interpreter goes on with the loop: an iteration that can be taken is
\* taken, and so is the return
SpecLoop ==
    /\ InitLoop
    /\ [][NextLoop]_vars
    /\ WF_loop_km(IterationStep)
    /\ WF_vars(SplitsReturn)

\* C23: for every non-empty track, also one whose maximum distance is 0,
\* negative or null, the window loop of _calculate_splits terminates: it
\* stops at the first window start k*1000 that reaches or exceeds the
\* maximum distance, after at most ceil(max_distance / 1000) iterations.
C23_LoopTerminates ==
    /\ [](pc \in {"while", "done"} /\ metrics_df.st = "df" =>
            LET max == max_dist(metrics_df)
            IN  /\ loop_km > 0 =>
                      (IsNum(max) /\ QLt(Q((loop_km - 1) * SplitLen, 1), max))
                /\ pc = "done" =>
                      (IsNa(max) \/ QLe(max, Q(loop_km * SplitLen, 1))))
    /\ (pc = "while") ~> (pc = "done")

\* the loop ran three times over a track that ends at 2500 m, and it ran
\* not at all over a track whose largest distance is negative
C23_Witness ==
    /\ pc = "done"
    /\ metrics_df.st = "df"
    /\ \/ loop_km = 3 /\ max_dist(metrics_df) = Q(2500, 1)
       \/ loop_km = 0 /\ max_dist(metrics_df) = Q(-500, 1)

----------------------------------------------------------------------------
(* Split pace (C24): tracks of three samples whose timestamps come in any  *)
(* order and whose cumulative distance stays, advances or falls back.      *)

PaceTimeCells == {Q(10, 1), Q(20, 1), Q(30, 1)}
PaceDistCells == {Q(0, 1), Q(500, 1), Q(1000, 1)}

InitPace ==
    InitTrack({[timestamps |-> ts, hrs |-> <<Q(150, 1)>>, alts |-> <<>>,
                dists |-> d, lats |-> <<>>, lons |-> <<>>] :
                  ts \in [1..3 -> PaceTimeCells], d \in [1..3 -> PaceDistCells]})

SpecPace == InitPace /\ [][Next]_vars

\* the rows of the table whose distance lies in the kilometre before km
WindowRows(track, km) ==
    SelectSeq(track.rows, LAMBDA r :
        QLe(Q((km - 1) * 1000, 1), r.Distance) /\ QLt(r.Distance, Q(km * 1000, 1)))

\* C24: for every emitted split, the covered distance is the last selected
\* point's distance minus the first selected point's, the elapsed time is the
\* last selected point's time minus the first selected point's, and the pace
\* is (elapsed_seconds / covered_km) / 60, or 0 if covered_km is 0; no split
\* has an infinite or negative pace.
C24_SplitPace ==
    (pc = "done" /\ metrics_df.st = "df") =>
        \A s \in 1..Len(splits) :
            LET selected == WindowRows(metrics_df, splits[s].KM)
                last == selected[Len(selected)]
                covered_km == QDiv(QSub(last.Distance, selected[1].Distance),
                                   Q(1000, 1))
                elapsed_seconds == QSub(last.Time, selected[1].Time)
            IN  /\ splits[s].Distance = covered_km
                /\ splits[s].Pace
                     = IF covered_km = Q(0, 1) THEN Q(0, 1)
                       ELSE QDiv(QDiv(elapsed_seconds, covered_km), Q(60, 1))
                /\ IsNum(splits[s].Pace)
                /\ QLe(Q(0, 1), splits[s].Pace)

----------------------------------------------------------------------------
(* Dropped rows (C25), under SpecFill.                                     *)

\* the entries of a column at the rows whose timestamp parses
RECURSIVE RetainedOf(_, _, _)
RetainedOf(timestamps, col, i) ==
    IF i > Len(timestamps) THEN <<>>
    ELSE (IF IsNa(ToDatetime(timestamps[i])) THEN <<>> ELSE <<col[i]>>)
         \o RetainedOf(timestamps, col, i + 1)

\* a raw column cut or padded to the length of the track, without the rows
\* whose timestamp does not parse, then made numeric and forward-filled
FilledAfterDrop(timestamps, col) ==
    LET kept == RetainedOf(timestamps, adjust(col, Len(timestamps)), 1)
    IN  ffill([i \in 1..Len(kept) |-> ToNumeric(kept[i])])

\* C25: rows whose timestamp fails to parse contribute nothing to the output
\* of _create_track_df: the returned table equals the table obtained by first
\* removing those rows and then forward-filling, so no retained TrackPoint
\* carries a heart-rate, altitude or distance value of a dropped row.
C25_DroppedRowsContributeNothing ==
    (AfterCreate /\ track_df.st = "df" /\ args.timestamps # <<>>) =>
        LET hr == FilledAfterDrop(args.timestamps, args.hrs)
            altitude == FilledAfterDrop(args.timestamps, args.alts)
            distance == FilledAfterDrop(args.timestamps, args.dists)
        IN  /\ Len(track_df.rows) = Len(hr)
            /\ \A i \in 1..Len(track_df.rows) :
                  /\ track_df.rows[i].HR = hr[i]
                  /\ track_df.rows[i].Altitude = altitude[i]
                  /\ track_df.rows[i].Distance = distance[i]

----------------------------------------------------------------------------
(* Time in zone (C26): tracks of three samples whose timestamps come in    *)
(* any order and whose heart rate is missing or lies in one of two zones.  *)

ShareHrCells == {NULL, Q(140, 1), Q(170, 1)}

InitShare ==
    InitTrack({[timestamps |-> ts, hrs |-> h, alts |-> <<>>,
                dists |-> <<Q(0, 1), Q(100, 1), Q(200, 1)>>,
                lats |-> <<>>, lons |-> <<>>] :
                  ts \in [1..3 -> PaceTimeCells], h \in [1..3 -> ShareHrCells]})

SpecShare == InitShare /\ [][Next]_vars

\* the time_diff of the points the analysis put into a zone
TimeInZone(track, Zone_Idx, zone) ==
    ColSum([j \in 1..Len(track.rows) |->
               IF Zone_Idx[j] = Q(zone, 1) THEN track.rows[j].Time_Diff ELSE NULL])

\* C26: in the deep-dive heart-rate analysis each zone's time is the sum of
\* time_diff over the points classified into that zone and its percentage is
\* zone_time / total_time * 100 (0 when total_time is 0); the five
\* percentages sum to at most 100, and to exactly 100 when total_time > 0
\* and every point has a non-null heart rate.
C26_ZoneShares ==
    (pc \in {"splits", "done"} /\ metrics_df.st = "df") =>
        LET n == Len(metrics_df.rows)
            total_time == ColSum([j \in 1..n |-> metrics_df.rows[j].Time_Diff])
            sum == QSum([i \in 1..5 |-> hr_zone.zone_data[i].Percentage])
        IN  /\ \A i \in 1..5 :
                  LET zone_time == TimeInZone(metrics_df, hr_zone.Zone_Idx, i - 1)
                  IN  /\ hr_zone.zone_data[i].Time = zone_time
                      /\ hr_zone.zone_data[i].Percentage
                           = IF total_time = Q(0, 1) THEN Q(0, 1)
                             ELSE QMul(QDiv(zone_time, total_time), Q(100, 1))
            /\ QLe(sum, Q(100, 1))
            /\ (QGt(total_time, Q(0, 1))
                  /\ \A j \in 1..n : ~IsNa(metrics_df.rows[j].HR))
                 => sum = Q(100, 1)

----------------------------------------------------------------------------
(* Timestamps of stream records (C27): FIT and TCX files of up to two      *)
(* samples whose timestamp is given, missing, or (TCX) a string that does  *)
(* not parse, in any order.                                                *)

FitTimeCells == {NULL, Q(0, 1), Q(10, 1)}
TcxTimeCells == {NULL, TEXT, Q(0, 1), Q(10, 1)}

TimedFiles ==
    UNION {
      {[FitOf(1, n) EXCEPT !.records =
            [i \in 1..n |-> [FitRecord(i, Q(90, 1), Q(3, 1))
                                EXCEPT !.timestamp = ts[i]]]] :
          ts \in [1..n -> FitTimeCells]}
      \cup {TcxOf(1, ts) : ts \in [1..n -> TcxTimeCells]} : n \in 1..2}

InitTimes ==
    /\ pc = "fit"
    /\ args = NoArgs
    /\ zones = DefaultZones
    /\ avg_hr = NULL
    /\ fit_file \in TimedFiles
    /\ InitRest
    /\ InitNoImport

SpecTimes == InitTimes /\ [][NextFit]_vars

\* C27: every stream record returned by parse_tcx_file and by parse_fit_file
\* has a timestamp and a non-negative elapsed_seconds measured from the first
\* record of the file, and the first returned record has elapsed_seconds 0,
\* for any file, also one whose first or intermediate records have a missing
\* or unparseable timestamp.
C27_StreamRecordsTimed ==
    LET recs == parse_stream_file(fit_file).recs
    IN  counts # NoCounts =>
          /\ \A i \in 1..Len(recs) :
                /\ IsNum(recs[i].timestamp)
                /\ IsNum(recs[i].elapsed_seconds)
                /\ QLe(Q(0, 1), recs[i].elapsed_seconds)
          /\ recs # <<>> => recs[1].elapsed_seconds = Q(0, 1)

----------------------------------------------------------------------------
(* Running the import again (C28): import_activity_streams is called a     *)
(* second time on the same directory and the same database, with its       *)
(* counters at 0 again and skip_existing as the caller passes it.          *)

\* a further call of import_activity_streams (import_streams.py 285-323):
\* the same files are listed, the counters start at 0
ImportAgain ==
    /\ pc = "imported"
    /\ run < MaxRuns
    /\ pc' = "import"
    /\ run' = run + 1
    /\ idx' = 0
    /\ counts' = NoCounts
    /\ skip_existing' \in BOOLEAN
    /\ UNCHANGED <<args, track_df, metrics_df, splits, zones, hr_zone, avg_hr,
                   page_zone, fit_file, stream_db, fit_track, fit_laps,
                   diag, tmp_files, file_list, activities, calls,
                   activity_df, conn, loop_km>>

NextRerun == ImportNextFile \/ ImportComplete \/ ImportAgain

\* files that import, that cannot be decoded, that have no activity id in
\* their name, and a TCX file with a trackpoint that is skipped
RerunFiles ==
    {FitOf(1, 1), FitOf(2, 2), [FitOf(2, 1) EXCEPT !.decode = "raises"],
     [FitOf(1, 1) EXCEPT !.name_ok = FALSE],
     TcxOf(3, <<Q(0, 1), TEXT, Q(20, 1)>>)}

InitRerun ==
    /\ pc = "import"
    /\ args = NoArgs
    /\ zones = DefaultZones
    /\ avg_hr = NULL
    /\ fit_file = NoFit
    /\ file_list \in SeqOf(RerunFiles, 1..MaxFiles)
    /\ skip_existing \in BOOLEAN
    /\ InitRest

SpecRerun == InitRerun /\ [][NextRerun]_vars

\* the stored stream records of one activity, in table order
StoredOf(db, a) == SelectSeq(db, LAMBDA row : row.activity_id = a)

\* C28: in a second run of import_activity_streams over the same files with
\* skip_existing = True, no step changes the stored records of an activity
\* that already has at least one stored record, and every file of such an
\* activity adds one to skipped_count and nothing to the other counters.
C28_SecondRunSkipsImported ==
    [][(run > 1 /\ skip_existing /\ pc = "import" /\ pc' = "import") =>
         LET file == file_list[idx + 1]
         IN  /\ \A i \in 1..Len(file_list) :
                   LET a == file_list[i].activity_id
                   IN  StoredOf(stream_db, a) # <<>>
                         => StoredOf(stream_db', a) = StoredOf(stream_db, a)
             /\ (file.name_ok /\ StoredOf(stream_db, file.activity_id) # <<>>)
                   => counts' = [counts EXCEPT !.skipped = @ + 1]]_vars

\* a second run with skip_existing has ended: it skipped a file whose
\* activity the earlier run had imported
C28_Witness ==
    /\ pc = "imported"
    /\ run = 2
    /\ skip_existing
    /\ counts.skipped >= 1
    /\ \E i \in 1..Len(file_list) :
          /\ file_list[i].name_ok
          /\ StoredOf(stream_db, file_list[i].activity_id) # <<>>

----------------------------------------------------------------------------
(* _calculate_metrics and the columns it is given (C29).                   *)

\* C29: _calculate_metrics only appends derived columns: the table it returns
\* has the rows of the table it was given, in the same order, with the same
\* values of Time, HR, Altitude, Distance, latitude and longitude, and the
\* columns it was given come first.
C29_MetricsKeepTrack ==
    [][(pc = "metrics" /\ pc' # "metrics" /\ metrics_df'.st = "df") =>
         /\ Len(metrics_df'.rows) = Len(track_df.rows)
         /\ \A i \in 1..Len(track_df.rows) :
               \A c \in 1..Len(TrackColumns) :
                  metrics_df'.rows[i][TrackColumns[c]]
                     = track_df.rows[i][TrackColumns[c]]
         /\ SubSeq(metrics_df'.columns, 1, Len(track_df.columns))
               = track_df.columns]_vars

\* metrics were computed for a track of several samples that has a missing
\* heart rate next to a given one
C29_Witness ==
    /\ HasMetrics
    /\ Len(metrics_df.rows) >= 2
    /\ \E i, j \in 1..Len(metrics_df.rows) :
          IsNa(metrics_df.rows[i].HR) /\ IsNum(metrics_df.rows[j].HR)

----------------------------------------------------------------------------
(* The two ways to the deep-dive table (C30): from the stored stream of    *)
(* the activity, and from its file.                                        *)

\* data.get_activity_stream (data.py 56-92): the stored rows as a table with
\* the timestamp converted, or the empty table
stream_df(db, activity_id) ==
    LET stream_records == get_activity_stream(db, activity_id)
    IN  [i \in 1..Len(stream_records) |->
            [stream_records[i] EXCEPT !.timestamp = ToDatetime(@)]]

\* page_recent_activities on an activity with a stored stream (deep_dive.py
\* 737-752): the columns are renamed and the table goes to _calculate_metrics
stream_track_df(db, activity_id) ==
    LET df == stream_df(db, activity_id)
    IN  calculate_metrics(
            [st |-> "df",
             columns |-> <<"activity_id", "Time", "elapsed_seconds", "HR",
                           "latitude", "longitude", "Altitude", "Distance",
                           "speed", "cadence", "pace">>,
             rows |-> [i \in 1..Len(df) |->
                         [Time |-> ToDatetime(df[i].timestamp),
                          HR |-> df[i].heart_rate,
                          Altitude |-> df[i].altitude,
                          Distance |-> df[i].distance,
                          latitude |-> df[i].latitude,
                          longitude |-> df[i].longitude,
                          cadence |-> df[i].cadence]]])

\* FIT files of up to FitLen records, each with or without a heart rate, an
\* altitude, a distance and a cadence
SensorRecords(i) ==
    {[FitRecord(i, cad, Q(3, 1)) EXCEPT !.heart_rate = hr, !.altitude = alt,
                                        !.distance = dist] :
        cad \in {NULL, Q(90, 1)}, hr \in {NULL, Q(150, 1)},
        alt \in {NULL, Q(100, 1)}, dist \in {NULL, Q(30 * i, 1)}}

SensorFiles ==
    UNION {{[NoFit EXCEPT !.activity_id = 1, !.records = recs] :
              recs \in {r \in [1..n -> UNION {SensorRecords(i) : i \in 1..n}] :
                          \A i \in 1..n : r[i] \in SensorRecords(i)}}
           : n \in 1..FitLen}

InitSensors ==
    /\ pc = "fit"
    /\ args = NoArgs
    /\ zones = DefaultZones
    /\ avg_hr = NULL
    /\ fit_file \in SensorFiles
    /\ InitRest
    /\ InitNoImport

SpecSensors == InitSensors /\ [][NextFit]_vars

\* C30: for one FIT file, the table page_recent_activities builds from the
\* stored stream (import_activity_streams, get_activity_stream,
\* _calculate_metrics) has the same rows as the table load_and_parse_file
\* builds from the file, with the same heart rate, altitude, distance and
\* cadence in every row, also when records lack sensor fields.
C30_StoredStreamMatchesFile ==
    (counts.imported = 1 /\ fit_track.st = "df") =>
        LET stored == stream_track_df(stream_db, fit_file.activity_id)
        IN  /\ stored.st = "df"
            /\ Len(stored.rows) = Len(fit_track.rows)
            /\ \A i \in 1..Len(fit_track.rows) :
                  /\ stored.rows[i].HR = fit_track.rows[i].HR
                  /\ stored.rows[i].Altitude = fit_track.rows[i].Altitude
                  /\ stored.rows[i].Distance = fit_track.rows[i].Distance
                  /\ stored.rows[i].cadence = fit_track.rows[i].cadence

====
